---- MODULE Spec2Model ----
(***************************************************************************)
(* Text reconstruction, exclusion and noise filtering of the combined      *)
(* extractor (backend/app/combined-extractor).                             *)
(*                                                                         *)
(* Geometry is in integer units of 1/20 pt (0.05 pt), so that 0.25 pt      *)
(* positions and 0.1 pt roundings are both exact.  Text is a sequence of   *)
(* one-character strings.                                                  *)
(***************************************************************************)
EXTENDS Integers, Sequences, FiniteSets, TLC

VARIABLES
    pc,                 \* position of the running operation
    \* reconstruct_formulas
    chars, baseline_size, baseline_top, arrows, sorted_by_y, k, lines,
    current_line, line_idx, line_chars, line_baseline_top,
    inserted_arrows, char_idx, prev_x1, current_format, is_subscript,
    is_superscript, result,
    \* TextExtractor._filter_chars_by_exclusion_zones
    ex_chars, exclusion_zones, caption_figure_padding_shrink,
    visual_figure_padding_shrink, ex_idx, ex_filtered,
    \* NoiseFilter.filter_characters
    nf_chars, noise_zones, nf_idx, nf_filtered,
    \* extract_arrow_graphics
    items, page_height, raw_arrows, processed, ea_i, ea_arrows, doc_open,
    \* LatexNormalizer.normalize
    ln_parts, ln_text, normalize_nuclides, wrap_elements_mathrm, ln_out,
    ln_calls, ln_first,
    \* RegexNoiseFilter.filter_text
    rx_text, filter_page_numbers, filter_copyright, filter_mirrored,
    filter_turn_over, filter_cid_garbage, filter_dots_punct,
    filter_page_metadata, raw_lines, rx_i, cleaned_lines, rx_out,
    rx_calls, rx_first,
    \* NoiseDetector.detect_noise_zones
    pages, sample_size, min_frequency_pct, sample_indices, nd_i,
    header_texts, footer_texts, left_margin_texts, right_margin_texts,
    min_occurrences, noise_patterns, nd_zones,
    \* pixel_bbox_to_pdf_bbox, convert_pdf_bbox_to_pixel_bbox
    bb_pixel, bb_width, bb_height, bb_dpi, bb_pdf, bb_back,
    \* extract_exclusion_zones_from_metadata
    elements, cc_pages, cc_dpi, cc_i, cc_zones,
    \* TextExtractor.extract_from_pdf
    xp_pages, xp_skip_first_page, xp_noise_filter, xp_exclusion_zones,
    xp_regex_filter, xp_pdf_open, xp_docs_open, xp_page_num, xp_results,
    xp_chars, xp_filtered_chars, xp_formatted_text, xp_raised

rfVars == <<chars, baseline_size, baseline_top, arrows,
            sorted_by_y, k, lines, current_line, line_idx,
            line_chars, line_baseline_top, inserted_arrows,
            char_idx, prev_x1, current_format, is_subscript,
            is_superscript, result>>

exVars == <<ex_chars, exclusion_zones,
            caption_figure_padding_shrink,
            visual_figure_padding_shrink, ex_idx, ex_filtered>>

nfVars == <<nf_chars, noise_zones, nf_idx, nf_filtered>>

eaVars == <<items, page_height, raw_arrows, processed, ea_i,
            ea_arrows, doc_open>>

lnVars == <<ln_parts, ln_text, normalize_nuclides,
            wrap_elements_mathrm, ln_out, ln_calls, ln_first>>

rxVars == <<rx_text, filter_page_numbers, filter_copyright,
            filter_mirrored, filter_turn_over,
            filter_cid_garbage, filter_dots_punct,
            filter_page_metadata, raw_lines, rx_i,
            cleaned_lines, rx_out, rx_calls, rx_first>>

ndVars == <<pages, sample_size, min_frequency_pct,
            sample_indices, nd_i, header_texts, footer_texts,
            left_margin_texts, right_margin_texts,
            min_occurrences, noise_patterns, nd_zones>>

bbVars == <<bb_pixel, bb_width, bb_height, bb_dpi, bb_pdf,
            bb_back>>

ccVars == <<elements, cc_pages, cc_dpi, cc_i, cc_zones>>

xpVars == <<xp_pages, xp_skip_first_page, xp_noise_filter,
            xp_exclusion_zones, xp_regex_filter, xp_pdf_open,
            xp_docs_open, xp_page_num, xp_results, xp_chars,
            xp_filtered_chars, xp_formatted_text, xp_raised>>

vars == <<pc, rfVars, exVars, nfVars, eaVars, lnVars, rxVars, ndVars, bbVars, ccVars, xpVars>>

\* What an operation of one component leaves alone: the other components.
notRF == <<exVars, nfVars, eaVars, lnVars, rxVars, ndVars, bbVars, ccVars, xpVars>>
notEX == <<rfVars, nfVars, eaVars, lnVars, rxVars, ndVars, bbVars, ccVars, xpVars>>
notNF == <<rfVars, exVars, eaVars, lnVars, rxVars, ndVars, bbVars, ccVars, xpVars>>
notEA == <<rfVars, exVars, nfVars, lnVars, rxVars, ndVars, bbVars, ccVars, xpVars>>
notLN == <<rfVars, exVars, nfVars, eaVars, rxVars, ndVars, bbVars, ccVars, xpVars>>
notRX == <<rfVars, exVars, nfVars, eaVars, lnVars, ndVars, bbVars, ccVars, xpVars>>
notND == <<rfVars, exVars, nfVars, eaVars, lnVars, rxVars, bbVars, ccVars, xpVars>>
notBB == <<rfVars, exVars, nfVars, eaVars, lnVars, rxVars, ndVars, ccVars, xpVars>>
notCC == <<rfVars, exVars, nfVars, eaVars, lnVars, rxVars, ndVars, bbVars, xpVars>>
\* extract_from_pdf calls extract_arrow_graphics and reconstruct_formulas.
notXP == <<exVars, nfVars, lnVars, rxVars, ndVars, bbVars, ccVars>>

----------------------------------------------------------------------------
(* Each component at rest *)

\* The locals of reconstruct_formulas before the call.
RFLocalsInit ==
    /\ sorted_by_y = <<>>
    /\ k = 1
    /\ lines = <<>>
    /\ current_line = <<>>
    /\ line_idx = 0
    /\ line_chars = <<>>
    /\ line_baseline_top = 0
    /\ inserted_arrows = {}
    /\ char_idx = 0
    /\ prev_x1 = <<>>
    /\ current_format = "normal"
    /\ is_subscript = FALSE
    /\ is_superscript = FALSE
    /\ result = <<>>

\* reconstruct_formulas is not running.
IdleRF ==
    /\ chars = <<>> /\ baseline_size = 0 /\ baseline_top = 0 /\ arrows = <<>>
    /\ RFLocalsInit

\* The exclusion filter is not running.
IdleEX ==
    /\ ex_chars = <<>> /\ exclusion_zones = <<>>
    /\ caption_figure_padding_shrink = 0 /\ visual_figure_padding_shrink = 0
    /\ ex_idx = 0 /\ ex_filtered = <<>>

\* The noise filter is not running.
NoZones ==
    [header_zones |-> <<>>, footer_zones |-> <<>>,
     left_margin_zones |-> <<>>, right_margin_zones |-> <<>>]

IdleNF ==
    /\ nf_chars = <<>> /\ noise_zones = NoZones /\ nf_idx = 0
    /\ nf_filtered = <<>>

\* extract_arrow_graphics is not running.
IdleEA ==
    /\ items = <<>> /\ page_height = 0 /\ raw_arrows = <<>>
    /\ processed = {} /\ ea_i = 0 /\ ea_arrows = <<>>
    /\ doc_open = FALSE

\* LatexNormalizer.normalize is not running.
IdleLN ==
    /\ ln_parts = <<>> /\ ln_text = <<>> /\ normalize_nuclides = TRUE
    /\ wrap_elements_mathrm = TRUE /\ ln_out = <<>> /\ ln_calls = 0
    /\ ln_first = <<>>

\* RegexNoiseFilter.filter_text is not running.
IdleRX ==
    /\ rx_text = <<>>
    /\ filter_page_numbers = TRUE /\ filter_copyright = TRUE
    /\ filter_mirrored = TRUE /\ filter_turn_over = TRUE
    /\ filter_cid_garbage = TRUE /\ filter_dots_punct = TRUE
    /\ filter_page_metadata = TRUE
    /\ raw_lines = <<>> /\ rx_i = 1 /\ cleaned_lines = <<>>
    /\ rx_out = <<>> /\ rx_calls = 0 /\ rx_first = <<>>

NoPatterns ==
    [header_patterns |-> <<>>, footer_patterns |-> <<>>,
     left_margin_patterns |-> <<>>, right_margin_patterns |-> <<>>]

\* NoiseDetector.detect_noise_zones is not running.
IdleND ==
    /\ pages = <<>> /\ sample_size = 5 /\ min_frequency_pct = 50
    /\ sample_indices = <<>> /\ nd_i = 1
    /\ header_texts = <<>> /\ footer_texts = <<>>
    /\ left_margin_texts = <<>> /\ right_margin_texts = <<>>
    /\ min_occurrences = 0 /\ noise_patterns = NoPatterns /\ nd_zones = NoZones

\* No bbox is being converted.
IdleBB ==
    /\ bb_pixel = <<>> /\ bb_width = [m |-> 0, e |-> 0]
    /\ bb_height = [m |-> 0, e |-> 0]
    /\ bb_dpi = 300 /\ bb_pdf = <<>> /\ bb_back = <<>>

\* extract_exclusion_zones_from_metadata is not running.
IdleCC ==
    /\ elements = <<>> /\ cc_pages = <<>> /\ cc_dpi = 300 /\ cc_i = 1
    /\ cc_zones = <<>>

\* extract_from_pdf is not running.
IdleXP ==
    /\ xp_pages = <<>> /\ xp_skip_first_page = TRUE /\ xp_noise_filter = <<>>
    /\ xp_exclusion_zones = <<>> /\ xp_regex_filter = FALSE
    /\ xp_pdf_open = FALSE /\ xp_docs_open = 0 /\ xp_page_num = 1
    /\ xp_results = <<>> /\ xp_chars = <<>> /\ xp_filtered_chars = <<>>
    /\ xp_formatted_text = <<>> /\ xp_raised = {}

\* Every component but one at rest.
RestButRF == IdleEX /\ IdleNF /\ IdleEA /\ IdleLN /\ IdleRX /\ IdleND /\ IdleBB /\ IdleCC /\ IdleXP
RestButEX == IdleRF /\ IdleNF /\ IdleEA /\ IdleLN /\ IdleRX /\ IdleND /\ IdleBB /\ IdleCC /\ IdleXP
RestButNF == IdleRF /\ IdleEX /\ IdleEA /\ IdleLN /\ IdleRX /\ IdleND /\ IdleBB /\ IdleCC /\ IdleXP
RestButEA == IdleRF /\ IdleEX /\ IdleNF /\ IdleLN /\ IdleRX /\ IdleND /\ IdleBB /\ IdleCC /\ IdleXP
RestButLN == IdleRF /\ IdleEX /\ IdleNF /\ IdleEA /\ IdleRX /\ IdleND /\ IdleBB /\ IdleCC /\ IdleXP
RestButRX == IdleRF /\ IdleEX /\ IdleNF /\ IdleEA /\ IdleLN /\ IdleND /\ IdleBB /\ IdleCC /\ IdleXP
RestButND == IdleRF /\ IdleEX /\ IdleNF /\ IdleEA /\ IdleLN /\ IdleRX /\ IdleBB /\ IdleCC /\ IdleXP
RestButBB == IdleRF /\ IdleEX /\ IdleNF /\ IdleEA /\ IdleLN /\ IdleRX /\ IdleND /\ IdleCC /\ IdleXP
RestButCC == IdleRF /\ IdleEX /\ IdleNF /\ IdleEA /\ IdleLN /\ IdleRX /\ IdleND /\ IdleBB /\ IdleXP
RestButXP == IdleRF /\ IdleEX /\ IdleNF /\ IdleEA /\ IdleLN /\ IdleRX /\ IdleND /\ IdleBB /\ IdleCC

----------------------------------------------------------------------------
(* Units and generic helpers *)

\* Model units per PDF point: the 0.25 pt grid of positions, each quarter
\* split in five so that tenths of a point are whole too.
Pt == 4 * 5

Abs(x) == IF x < 0 THEN -x ELSE x

RECURSIVE Flatten(_)
Flatten(ss) == IF ss = <<>> THEN <<>> ELSE Head(ss) \o Flatten(Tail(ss))

----------------------------------------------------------------------------
(* TextExtractor._filter_chars_by_exclusion_zones *)

MaxExChars == 2               \* characters given to the exclusion filter

Max(a, b) == IF a > b THEN a ELSE b
Min(a, b) == IF a < b THEN a ELSE b

\* Lines 261-281: _bbox_overlap on (x0, y0, x1, y1).
BBoxOverlap(bbox1, bbox2) ==
    IF bbox1[3] < bbox2[1] \/ bbox2[3] < bbox1[1] THEN FALSE
    ELSE IF bbox1[4] < bbox2[2] \/ bbox2[4] < bbox1[2] THEN FALSE
    ELSE TRUE

\* The padding of a figure zone taken from one setting whatever its source.
PaddingShrinkAnySource(zone, caption_pad, visual_pad) ==
    IF zone.type = "figure" THEN visual_pad ELSE 0

\* Lines 225-238: the shrink padding of a zone, by type and source.
PaddingShrinkAnyType(zone, caption_pad, visual_pad) ==
    IF zone.source = "caption" THEN caption_pad ELSE visual_pad
PaddingShrink(zone, caption_pad, visual_pad) ==
    IF zone.type = "figure"
    THEN IF zone.source = "caption" THEN caption_pad ELSE visual_pad
    ELSE 0

\* Lines 240-250: the zone's bbox, shrunk inward when the padding is positive.
AdjustedBBox(zone, caption_pad, visual_pad) ==
    LET padding_shrink == PaddingShrink(zone, caption_pad, visual_pad)
        b == zone.bbox
    IN  IF padding_shrink > 0
        THEN <<b[1] + padding_shrink, b[2] + padding_shrink,
               b[3] - padding_shrink, b[4] - padding_shrink>>
        ELSE b

CharBBox(char) == <<char.x0, char.top, char.x1, char.bottom>>

\* Lines 218-254: is the character excluded by some zone?
IsExcluded(char, zones, caption_pad, visual_pad) ==
    \E i \in 1..Len(zones) :
        BBoxOverlap(CharBBox(char), AdjustedBBox(zones[i], caption_pad, visual_pad))

\* Lines 210-213: with no zones the characters are returned as they are.
EX_Start ==
    /\ UNCHANGED notEX
    /\ pc = "ex_start"
    /\ IF exclusion_zones = <<>>
       THEN /\ ex_filtered' = ex_chars
            /\ pc' = "ex_done"
       ELSE /\ ex_filtered' = <<>>
            /\ pc' = "ex_loop"
    /\ ex_idx' = 1
    /\ UNCHANGED <<ex_chars, exclusion_zones, caption_figure_padding_shrink,
                   visual_figure_padding_shrink>>

\* Lines 215-257: one character is tested against the zones.
EX_CharStep ==
    /\ UNCHANGED notEX
    /\ pc = "ex_loop"
    /\ ex_idx =< Len(ex_chars)
    /\ ex_filtered' =
          IF IsExcluded(ex_chars[ex_idx], exclusion_zones,
                        caption_figure_padding_shrink,
                        visual_figure_padding_shrink)
          THEN ex_filtered
          ELSE Append(ex_filtered, ex_chars[ex_idx])
    /\ ex_idx' = ex_idx + 1
    /\ UNCHANGED <<pc, ex_chars, exclusion_zones, caption_figure_padding_shrink,
                   visual_figure_padding_shrink>>

\* Line 259: return filtered.
EX_Return ==
    /\ UNCHANGED notEX
    /\ pc = "ex_loop"
    /\ ex_idx > Len(ex_chars)
    /\ pc' = "ex_done"
    /\ UNCHANGED exVars

NextEX == EX_Start \/ EX_CharStep \/ EX_Return

\* Glyph boxes around a zone that spans x 100..200 pt, y 100..200 pt: left
\* of it, touching its edge, straddling the edge, inside its 20 pt rim, deep
\* inside, right of it; above it or level with it.
ExSpansX ==
    { <<1600, 1800>>, <<1800, 2000>>, <<1900, 2100>>, <<2200, 2300>>,
      <<2900, 3000>>, <<4100, 4200>> }

ExSpansY == { <<1600, 1800>>, <<2900, 3100>>, <<1800, 2000>> }

ExCharKinds ==
    { [x0 |-> sx[1], x1 |-> sx[2], top |-> sy[1], bottom |-> sy[2]] :
        sx \in ExSpansX, sy \in ExSpansY }

Zone(b, t, src) == [bbox |-> b, type |-> t, source |-> src]

ExBox == <<2000, 2000, 4000, 4000>>
ExNarrowBox == <<2000, 2000, 2600, 4000>>

ExZoneLists ==
    { <<>>,
      <<Zone(ExBox, "figure", "caption")>>,
      <<Zone(ExBox, "figure", "visual")>>,
      <<Zone(ExBox, "table", "pdfplumber")>>,
      <<Zone(ExBox, "unknown", "")>>,
      <<Zone(ExNarrowBox, "figure", "glyph_clustering")>>,
      <<Zone(ExNarrowBox, "figure", "visual"), Zone(ExBox, "table", "caption")>>,
      <<Zone(ExBox, "figure", "visual"), Zone(ExNarrowBox, "figure", "caption")>> }

ExCharLists ==
    UNION { [1..n -> ExCharKinds] : n \in 0..MaxExChars }

InitEX ==
    /\ pc = "ex_start"
    /\ ex_chars \in ExCharLists
    /\ exclusion_zones \in ExZoneLists
    /\ \E pad \in { <<0, 400>>, <<100, 0>>, <<0, 0>> } :
          /\ caption_figure_padding_shrink = pad[1]
          /\ visual_figure_padding_shrink = pad[2]
    /\ ex_idx = 0
    /\ ex_filtered = <<>>
    /\ RestButEX

SpecEX == InitEX /\ [][NextEX]_vars

Range(s) == {s[i] : i \in DOMAIN s}

\* Two closed rectangles share a point.
Intersects(a, b) ==
    /\ Max(a[1], b[1]) =< Min(a[3], b[3])
    /\ Max(a[2], b[2]) =< Min(a[4], b[4])

\* Rectangle a lies within rectangle b.
Within(a, b) ==
    /\ b[1] =< a[1] /\ a[3] =< b[3]
    /\ b[2] =< a[2] /\ a[4] =< b[4]

\* The zone is used as it is: it is no figure, or the shrink padding
\* configured for its source is zero.
UsedUnshrunk(zone) ==
    \/ zone.type # "figure"
    \/ zone.source = "caption" /\ caption_figure_padding_shrink = 0
    \/ zone.source # "caption" /\ visual_figure_padding_shrink = 0

\* C4: the exclusion filter retains every character whose bbox intersects no
\* exclusion zone, and drops every character whose bbox lies fully inside a
\* zone that is used with zero shrink padding.
C4_ExclusionSymmetry ==
    pc = "ex_done" =>
        \A i \in 1..Len(ex_chars) :
            LET c == ex_chars[i]
            IN  /\ (\A j \in 1..Len(exclusion_zones) :
                        ~Intersects(CharBBox(c), exclusion_zones[j].bbox))
                    => c \in Range(ex_filtered)
                /\ (\E j \in 1..Len(exclusion_zones) :
                        /\ UsedUnshrunk(exclusion_zones[j])
                        /\ Within(CharBBox(c), exclusion_zones[j].bbox))
                    => c \notin Range(ex_filtered)

\* C4 witness: of two characters filtered against a table zone, the one
\* within the zone's 20 pt rim was dropped and the one outside was kept.
C4_Witness ==
    /\ pc = "ex_done"
    /\ Len(ex_chars) = 2 /\ Len(ex_filtered) = 1
    /\ exclusion_zones = <<Zone(ExBox, "table", "pdfplumber")>>
    /\ visual_figure_padding_shrink = 400
    /\ Within(CharBBox(ex_chars[1]), <<2000, 2000, 2400, 4000>>)
    /\ ~Intersects(CharBBox(ex_chars[2]), ExBox)
    /\ ex_filtered = <<ex_chars[2]>>

----------------------------------------------------------------------------
(* NoiseFilter.filter_characters *)

MaxNfChars == 2               \* characters given to the noise filter

\* Lines 47-82: _is_in_noise_zone, the zone lists walked in order.
InYZone(char, zone) == char.top >= zone.y_min /\ char.top =< zone.y_max

InXZone(char, zone) == char.x0 >= zone.x_min /\ char.x0 =< zone.x_max

InYZoneByBox(char, zone) == char.bottom >= zone.y_min /\ char.top =< zone.y_max

IsInNoiseZoneByBox(char, zones) ==
    \/ \E i \in 1..Len(zones.header_zones) : InYZoneByBox(char, zones.header_zones[i])
    \/ \E i \in 1..Len(zones.footer_zones) : InYZoneByBox(char, zones.footer_zones[i])
    \/ \E i \in 1..Len(zones.left_margin_zones) : InXZone(char, zones.left_margin_zones[i])
    \/ \E i \in 1..Len(zones.right_margin_zones) : InXZone(char, zones.right_margin_zones[i])
IsInNoiseZone(char, zones) ==
    \/ \E i \in 1..Len(zones.header_zones) : InYZone(char, zones.header_zones[i])
    \/ \E i \in 1..Len(zones.footer_zones) : InYZone(char, zones.footer_zones[i])
    \/ \E i \in 1..Len(zones.left_margin_zones) : InXZone(char, zones.left_margin_zones[i])
    \/ \E i \in 1..Len(zones.right_margin_zones) : InXZone(char, zones.right_margin_zones[i])

\* Lines 36-39: no characters, nothing to filter.
NF_Start ==
    /\ UNCHANGED notNF
    /\ pc = "nf_start"
    /\ nf_filtered' = <<>>
    /\ nf_idx' = 1
    /\ pc' = IF nf_chars = <<>> THEN "nf_done" ELSE "nf_loop"
    /\ UNCHANGED <<nf_chars, noise_zones>>

\* Lines 41-43: a character outside every zone is kept.
NF_CharStep ==
    /\ UNCHANGED notNF
    /\ pc = "nf_loop"
    /\ nf_idx =< Len(nf_chars)
    /\ nf_filtered' = IF ~IsInNoiseZone(nf_chars[nf_idx], noise_zones)
                      THEN Append(nf_filtered, nf_chars[nf_idx])
                      ELSE nf_filtered
    /\ nf_idx' = nf_idx + 1
    /\ UNCHANGED <<pc, nf_chars, noise_zones>>

\* Line 45: return filtered.
NF_Return ==
    /\ UNCHANGED notNF
    /\ pc = "nf_loop"
    /\ nf_idx > Len(nf_chars)
    /\ pc' = "nf_done"
    /\ UNCHANGED nfVars

NextNF == NF_Start \/ NF_CharStep \/ NF_Return

\* Zones as NoiseDetector builds them on a 595 x 842 pt page, and glyphs at
\* and around their edges.
YZone(lo, hi) == [y_min |-> lo * Pt, y_max |-> hi * Pt]
XZone(lo, hi) == [x_min |-> lo * Pt, x_max |-> hi * Pt]

NfZoneSets ==
    { NoZones,
      [NoZones EXCEPT !.header_zones = <<YZone(0, 35)>>],
      [NoZones EXCEPT !.footer_zones = <<YZone(775, 842)>>],
      [NoZones EXCEPT !.left_margin_zones = <<XZone(0, 45)>>],
      [NoZones EXCEPT !.right_margin_zones = <<XZone(565, 595)>>],
      [header_zones |-> <<YZone(0, 20), YZone(0, 35)>>,
       footer_zones |-> <<YZone(775, 842)>>,
       left_margin_zones |-> <<XZone(0, 45)>>,
       right_margin_zones |-> <<XZone(565, 595)>>] }

NfSpansX == { <<45, 51>>, <<46, 52>>, <<300, 306>>, <<560, 570>>, <<565, 571>> }

NfSpansY == { <<35, 45>>, <<36, 46>>, <<770, 780>>, <<775, 785>> }

NfCharKinds ==
    { [x0 |-> sx[1] * Pt, x1 |-> sx[2] * Pt,
       top |-> sy[1] * Pt, bottom |-> sy[2] * Pt] :
        sx \in NfSpansX, sy \in NfSpansY }

InitNF ==
    /\ pc = "nf_start"
    /\ nf_chars \in UNION { [1..n -> NfCharKinds] : n \in 0..MaxNfChars }
    /\ noise_zones \in NfZoneSets
    /\ nf_idx = 0
    /\ nf_filtered = <<>>
    /\ RestButNF

SpecNF == InitNF /\ [][NextNF]_vars

\* The anchor (x0, top) of a character lies in a configured zone.
AnchorInZone(c, zones) ==
    \/ \E z \in Range(zones.header_zones) \cup Range(zones.footer_zones) :
          z.y_min =< c.top /\ c.top =< z.y_max
    \/ \E z \in Range(zones.left_margin_zones) \cup Range(zones.right_margin_zones) :
          z.x_min =< c.x0 /\ c.x0 =< z.x_max

RECURSIVE AnchorsOutside(_, _)
AnchorsOutside(s, zones) ==
    IF s = <<>> THEN <<>>
    ELSE IF AnchorInZone(Head(s), zones)
         THEN AnchorsOutside(Tail(s), zones)
         ELSE <<Head(s)>> \o AnchorsOutside(Tail(s), zones)

\* C5: filter_characters drops a character if and only if its anchor is in a
\* configured zone (top in the Y range of a header or footer zone, or x0 in
\* the X range of a margin zone), whatever its x1 and bottom; a single
\* character with its anchor in a zone filters to the empty list.
C5_ZoneContainment ==
    pc = "nf_done" =>
        /\ nf_filtered = AnchorsOutside(nf_chars, noise_zones)
        /\ (Len(nf_chars) = 1 /\ AnchorInZone(nf_chars[1], noise_zones))
              => nf_filtered = <<>>

\* C5 witness: a glyph whose box reaches into the footer and right-margin
\* zones but whose anchor is outside them was kept, and one whose anchor is
\* in the header zone was dropped.
C5_Witness ==
    /\ pc = "nf_done"
    /\ Len(nf_chars) = 2 /\ Len(nf_filtered) = 1
    /\ noise_zones.footer_zones # <<>> /\ noise_zones.right_margin_zones # <<>>
    /\ nf_chars[1].top = 770 * Pt /\ nf_chars[1].x0 = 560 * Pt
    /\ nf_chars[2].top = 35 * Pt
    /\ nf_filtered = <<nf_chars[1]>>

----------------------------------------------------------------------------
(* extract_arrow_graphics *)

MaxItems == 3                 \* drawing items on a page

\* Segment coordinates lie on the 0.1 pt grid (even model units), so the
\* midpoints the code takes are whole model units.
Half(n) == n \div 2

\* Lines 174-183: is the drawing item a short horizontal line in the content
\* area (the middle 80% of the page height)?
Accepted(item, height) ==
    LET length == Abs(item.ex - item.sx)
    IN  /\ item.kind = "l"
        /\ 8 * Pt =< length /\ length =< 30 * Pt
        /\ Abs(item.sy - item.ey) < 2 * Pt
        /\ height =< item.sy * 10 /\ item.sy * 10 =< height * 9

\* Lines 185-197: the raw arrow of an accepted line.
RawArrow(item) ==
    [x_start |-> Min(item.sx, item.ex),
     x_end |-> Max(item.sx, item.ex),
     x_mid |-> Half(item.sx + item.ex),
     y |-> item.sy,
     direction |-> IF item.ex > item.sx THEN "right" ELSE "left",
     length |-> Abs(item.ex - item.sx)]

\* Closeness alone, whichever way the two segments point.
PairsAnyDirection(a1, a2) ==
    /\ Abs(a1.y - a2.y) < 5 * Pt
    /\ Abs(a1.x_mid - a2.x_mid) < 10 * Pt

\* Lines 209-217: the first unprocessed raw arrow close to arrow i and
\* pointing the other way; 0 when there is none.
Pairs(a1, a2) ==
    /\ Abs(a1.y - a2.y) < 5 * Pt
    /\ Abs(a1.x_mid - a2.x_mid) < 10 * Pt
    /\ a1.direction # a2.direction

Partner(i, raw, proc) ==
    LET cand == {j \in 1..Len(raw) : j # i /\ j \notin proc /\ Pairs(raw[i], raw[j])}
    IN  IF cand = {} THEN 0 ELSE CHOOSE j \in cand : \A j2 \in cand : j =< j2

\* Lines 219-225: the equilibrium arrow of a pair.
Equilibrium(a1, a2) ==
    [x_start |-> Min(a1.x_start, a2.x_start),
     x_end |-> Max(a1.x_end, a2.x_end),
     y |-> Half(a1.y + a2.y),
     direction |-> <<"<", "=", ">">>,
     length |-> Max(a1.length, a2.length)]

\* Lines 233-239: the arrow of a segment that found no partner.
Single(a1) ==
    [x_start |-> a1.x_start, x_end |-> a1.x_end, y |-> a1.y,
     direction |-> IF a1.direction = "right" THEN <<"-", ">">> ELSE <<"<", "-">>,
     length |-> a1.length]

\* Lines 226-227: both segments of a pair are consumed.
MarkPairFirstOnly(proc, i, j) == proc \cup {i}
MarkPair(proc, i, j) == proc \cup {i, j}

\* Lines 171-197: one drawing item is looked at.
EA_Collect ==
    /\ UNCHANGED notEA
    /\ pc = "ea_collect"
    /\ ea_i =< Len(items)
    /\ raw_arrows' = IF Accepted(items[ea_i], page_height)
                     THEN Append(raw_arrows, RawArrow(items[ea_i]))
                     ELSE raw_arrows
    /\ ea_i' = ea_i + 1
    /\ UNCHANGED <<pc, items, page_height, processed, ea_arrows, doc_open>>

\* Lines 199-200: the pairing pass begins.
EA_CollectEnd ==
    /\ UNCHANGED notEA
    /\ pc = "ea_collect"
    /\ ea_i > Len(items)
    /\ processed' = {}
    /\ ea_i' = 1
    /\ pc' = "ea_pair"
    /\ UNCHANGED <<items, page_height, raw_arrows, ea_arrows, doc_open>>

\* Lines 202-240: one raw arrow is paired or emitted alone.
EA_Pair ==
    /\ UNCHANGED notEA
    /\ pc = "ea_pair"
    /\ ea_i =< Len(raw_arrows)
    /\ IF ea_i \in processed
       THEN UNCHANGED <<ea_arrows, processed>>
       ELSE LET j == Partner(ea_i, raw_arrows, processed)
            IN  IF j # 0
                THEN /\ ea_arrows' = Append(ea_arrows,
                                        Equilibrium(raw_arrows[ea_i], raw_arrows[j]))
                     /\ processed' = MarkPair(processed, ea_i, j)
                ELSE /\ ea_arrows' = Append(ea_arrows, Single(raw_arrows[ea_i]))
                     /\ processed' = processed \cup {ea_i}
    /\ ea_i' = ea_i + 1
    /\ UNCHANGED <<pc, items, page_height, raw_arrows, doc_open>>

\* Lines 242-247: the document is closed and the arrows are returned.
EA_Return ==
    /\ UNCHANGED notEA
    /\ pc = "ea_pair"
    /\ ea_i > Len(raw_arrows)
    /\ doc_open' = FALSE
    /\ pc' = "ea_done"
    /\ UNCHANGED <<items, page_height, raw_arrows, processed, ea_i, ea_arrows>>

NextEA == EA_Collect \/ EA_CollectEnd \/ EA_Pair \/ EA_Return

\* Drawing items: lines from (sx, sy) to (ex, ey), and one curve.
Line(sx, sy, ex, ey) ==
    [kind |-> "l", sx |-> sx * Pt, sy |-> sy * Pt, ex |-> ex * Pt, ey |-> ey * Pt]

EaItemKinds ==
    { Line(100, 50, 115, 50),       \* left to right at y = 50
      Line(115, 50, 100, 50),       \* right to left at y = 50
      Line(104, 52, 119, 52),       \* right, 2 pt lower, midpoints 4 pt apart
      Line(125, 50, 110, 50),       \* left, midpoint 10 pt from the first
      Line(115, 55, 100, 55),       \* left, 5 pt lower
      Line(100, 50, 107, 50),       \* 7 pt long
      Line(100, 50, 115, 52),       \* slanted by 2 pt
      Line(115, 400, 100, 400),     \* left at y = 400
      [kind |-> "c", sx |-> 100 * Pt, sy |-> 50 * Pt,
       ex |-> 115 * Pt, ey |-> 50 * Pt] }

InitEA ==
    /\ pc = "ea_collect"
    /\ items \in UNION { [1..n -> EaItemKinds] : n \in 0..MaxItems }
    /\ page_height \in {200 * Pt, 842 * Pt}
    /\ raw_arrows = <<>>
    /\ processed = {}
    /\ ea_i = 1
    /\ ea_arrows = <<>>
    /\ doc_open = TRUE
    /\ RestButEA

SpecEA == InitEA /\ [][NextEA]_vars

TwoSegmentsAt50 == <<Line(100, 50, 115, 50), Line(115, 50, 100, 50)>>

IsFused(a) == a.direction = <<"<", "=", ">">>

FusedCount == Cardinality({i \in 1..Len(ea_arrows) : IsFused(ea_arrows[i])})

\* C7 as stated: the two segments at y = 50 spanning x 100..115, one drawn
\* each way, always give exactly one arrow, an equilibrium arrow.
C7_TwoSegmentsAlwaysFuse ==
    (pc = "ea_done" /\ items = TwoSegmentsAt50) =>
        Len(ea_arrows) = 1 /\ IsFused(ea_arrows[1])

\* C7 amended: on a page whose content band (10% to 90% of the page height)
\* contains y = 50, the two segments give exactly one arrow, an equilibrium
\* arrow spanning x 100..115; and on every page each accepted segment is
\* consumed into exactly one output arrow, so that the arrows number the
\* accepted segments minus the fused pairs.
C7_ArrowFusion ==
    /\ (pc = "ea_done" /\ items = TwoSegmentsAt50
        /\ page_height =< 500 * Pt /\ 9 * page_height >= 500 * Pt) =>
          /\ Len(ea_arrows) = 1 /\ IsFused(ea_arrows[1])
          /\ ea_arrows[1].x_start = 100 * Pt /\ ea_arrows[1].x_end = 115 * Pt
          /\ ea_arrows[1].y = 50 * Pt
    /\ pc \in {"ea_pair", "ea_done"} =>
          /\ Cardinality(processed) = Len(ea_arrows) + FusedCount
          /\ \A i \in 1..(ea_i - 1) : i \in processed
    /\ pc = "ea_done" =>
          /\ processed = 1..Len(raw_arrows)
          /\ Len(ea_arrows) = Len(raw_arrows) - FusedCount
          /\ Len(raw_arrows) =
                Cardinality({i \in 1..Len(items) : Accepted(items[i], page_height)})

\* C7 witness: on a 200 pt page both segments were accepted and fused.
C7_Witness ==
    /\ pc = "ea_done"
    /\ items = TwoSegmentsAt50 /\ page_height = 200 * Pt
    /\ Len(raw_arrows) = 2 /\ processed = {1, 2}
    /\ Len(ea_arrows) = 1 /\ IsFused(ea_arrows[1])

----------------------------------------------------------------------------
(* LatexNormalizer *)

MaxParts == 3                 \* fragments a text is composed of

Digits == {"0", "1", "2", "3", "4", "5", "6", "7", "8", "9"}

UpperLetters ==
    {"A", "B", "C", "D", "E", "F", "G", "H", "I", "J", "K", "L", "M",
     "N", "O", "P", "Q", "R", "S", "T", "U", "V", "W", "X", "Y", "Z"}

LowerLetters ==
    {"a", "b", "c", "d", "e", "f", "g", "h", "i", "j", "k", "l", "m",
     "n", "o", "p", "q", "r", "s", "t", "u", "v", "w", "x", "y", "z"}

At(t, i) == IF i >= 1 /\ i =< Len(t) THEN t[i] ELSE ""

\* Does the literal lit stand in t at position i?
Lit(t, i, lit) ==
    i + Len(lit) - 1 =< Len(t) /\ SubSeq(t, i, i + Len(lit) - 1) = lit

\* \d+ from position i: the position after the run of digits.
RECURSIVE DigitsEnd(_, _)
DigitsEnd(t, i) == IF At(t, i) \in Digits THEN DigitsEnd(t, i + 1) ELSE i

\* ^{(\d+)} or _\{(\d+)\} at position i: ok, the digits, the position after.
ScriptGroup(t, i, mark) ==
    LET e == DigitsEnd(t, i + 2)
    IN  IF At(t, i) = mark /\ At(t, i + 1) = "{" /\ e > i + 2 /\ At(t, e) = "}"
        THEN [ok |-> TRUE, num |-> SubSeq(t, i + 2, e - 1), next |-> e + 1]
        ELSE [ok |-> FALSE, num |-> <<>>, next |-> i]

\* ([A-Z][a-z]?) at position i: ok, the symbol, the position after.
ElementAt(t, i) ==
    IF At(t, i) \in UpperLetters
    THEN IF At(t, i + 1) \in LowerLetters
         THEN [ok |-> TRUE, sym |-> <<t[i], t[i + 1]>>, next |-> i + 2]
         ELSE [ok |-> TRUE, sym |-> <<t[i]>>, next |-> i + 1]
    ELSE [ok |-> FALSE, sym |-> <<>>, next |-> i]

Mathrm == <<"\\", "m", "a", "t", "h", "r", "m", "{">>

Sup(num) == <<"^", "{">> \o num \o <<"}">>
Sub(num) == <<"_", "{">> \o num \o <<"}">>

DigitValue(d) == CHOOSE v \in 0..9 : ToString(v) = d

RECURSIVE NumberOf(_)
NumberOf(num) ==
    IF num = <<>> THEN 0
    ELSE 10 * NumberOf(SubSeq(num, 1, Len(num) - 1)) + DigitValue(num[Len(num)])

RECURSIVE DigitsOf(_)
DigitsOf(n) ==
    IF n < 10 THEN <<ToString(n)>>
    ELSE DigitsOf(n \div 10) \o <<ToString(n % 10)>>

\* Lines 84-86: the two digit runs of a split number, merged.
MergeBySum(n1, n2) == DigitsOf(NumberOf(n1) + NumberOf(n2))
Merge(n1, n2) == n1 \o n2

\* Lines 21-23 and 72-89: _NUCLIDE_SPLIT_PATTERN at position i and what
\* merge_nuclide returns for it.
SplitAt(t, i) ==
    LET s1 == ScriptGroup(t, i, "^")
        b1 == ScriptGroup(t, s1.next, "_")
        s2 == ScriptGroup(t, b1.next, "^")
        b2 == ScriptGroup(t, s2.next, "_")
        el == ElementAt(t, b2.next)
    IN  IF s1.ok /\ b1.ok /\ s2.ok /\ b2.ok /\ el.ok
        THEN [ok |-> TRUE, next |-> el.next,
              repl |-> Sup(Merge(s1.num, s2.num)) \o Sub(Merge(b1.num, b2.num))
                       \o el.sym]
        ELSE [ok |-> FALSE, next |-> i, repl |-> <<>>]

\* Lines 66-91: _normalize_nuclides, the pattern substituted left to right.
RECURSIVE NormalizeNuclidesFrom(_, _)
NormalizeNuclidesFrom(t, i) ==
    IF i > Len(t) THEN <<>>
    ELSE LET m == SplitAt(t, i)
         IN  IF m.ok THEN m.repl \o NormalizeNuclidesFrom(t, m.next)
             ELSE <<t[i]>> \o NormalizeNuclidesFrom(t, i + 1)

\* Lines 26-28 and 100-111: _NUCLIDE_NORMALIZED_PATTERN at position i and
\* what wrap_nuclide_element returns for it.
WrapAtAlways(t, i) ==
    LET s1 == ScriptGroup(t, i, "^")
        b1 == ScriptGroup(t, s1.next, "_")
        wrapped == Lit(t, b1.next, Mathrm)
                   /\ ElementAt(t, b1.next + Len(Mathrm)).ok
        el == ElementAt(t, IF wrapped THEN b1.next + Len(Mathrm) ELSE b1.next)
    IN  IF s1.ok /\ b1.ok /\ el.ok
        THEN [ok |-> TRUE, next |-> el.next,
              repl |-> Sup(s1.num) \o Sub(b1.num) \o Mathrm \o el.sym \o <<"}">>]
        ELSE [ok |-> FALSE, next |-> i, repl |-> <<>>]
WrapAt(t, i) ==
    LET s1 == ScriptGroup(t, i, "^")
        b1 == ScriptGroup(t, s1.next, "_")
        wrapped == Lit(t, b1.next, Mathrm)
                   /\ ElementAt(t, b1.next + Len(Mathrm)).ok
        el == ElementAt(t, IF wrapped THEN b1.next + Len(Mathrm) ELSE b1.next)
    IN  IF s1.ok /\ b1.ok /\ el.ok
        THEN [ok |-> TRUE, next |-> el.next,
              repl |-> IF wrapped THEN SubSeq(t, i, el.next - 1)
                       ELSE Sup(s1.num) \o Sub(b1.num) \o Mathrm \o el.sym
                            \o <<"}">>]
        ELSE [ok |-> FALSE, next |-> i, repl |-> <<>>]

\* Lines 93-115: _wrap_elements_in_mathrm.
RECURSIVE WrapElementsFrom(_, _)
WrapElementsFrom(t, i) ==
    IF i > Len(t) THEN <<>>
    ELSE LET m == WrapAt(t, i)
         IN  IF m.ok THEN m.repl \o WrapElementsFrom(t, m.next)
             ELSE <<t[i]>> \o WrapElementsFrom(t, i + 1)

\* Lines 53-58: an empty text is returned at once; else step 1, if enabled.
LN_NormalizeNuclides ==
    /\ UNCHANGED notLN
    /\ pc = "ln_start"
    /\ IF ln_text = <<>>
       THEN ln_out' = ln_text /\ pc' = "ln_done"
       ELSE /\ ln_out' = IF normalize_nuclides
                         THEN NormalizeNuclidesFrom(ln_text, 1) ELSE ln_text
            /\ pc' = "ln_wrap"
    /\ ln_calls' = ln_calls + 1
    /\ UNCHANGED <<ln_parts, ln_text, normalize_nuclides, wrap_elements_mathrm,
                   ln_first>>

\* Lines 60-64: step 2, if enabled, and the return.
LN_WrapElements ==
    /\ UNCHANGED notLN
    /\ pc = "ln_wrap"
    /\ ln_out' = IF wrap_elements_mathrm THEN WrapElementsFrom(ln_out, 1)
                 ELSE ln_out
    /\ pc' = "ln_done"
    /\ UNCHANGED <<ln_parts, ln_text, normalize_nuclides, wrap_elements_mathrm,
                   ln_calls, ln_first>>

\* The caller normalizes the result once more.
LN_CallAgain ==
    /\ UNCHANGED notLN
    /\ pc = "ln_done"
    /\ ln_calls = 1
    /\ ln_first' = ln_out
    /\ ln_text' = ln_out
    /\ pc' = "ln_start"
    /\ UNCHANGED <<ln_parts, normalize_nuclides, wrap_elements_mathrm, ln_out,
                   ln_calls>>

NextLN == LN_NormalizeNuclides \/ LN_WrapElements \/ LN_CallAgain

\* Fragments of reconstructed text: split nuclides, a nuclide in one piece,
\* a wrapped nuclide, formulas, words, a lone superscript/subscript pair.
SplitCl == <<"^", "{", "3", "}", "_", "{", "1", "}",
             "^", "{", "5", "}", "_", "{", "7", "}", "C", "l">>
SplitU == <<"^", "{", "2", "}", "_", "{", "9", "}",
            "^", "{", "3", "8", "}", "_", "{", "2", "}", "U">>
WholeH == <<"^", "{", "1", "}", "_", "{", "1", "}", "H">>
WrappedCl == <<"^", "{", "3", "5", "}", "_", "{", "1", "7", "}">> \o Mathrm
             \o <<"C", "l", "}">>
Water == <<"H", "_", "{", "2", "}", "O">>
Volume == <<"c", "m", "^", "{", "3", "}">>
WordAnd == <<" ", "a", "n", "d", " ">>
LonePair == <<"^", "{", "4", "}", "_", "{", "2", "}">>

LnFragments ==
    {SplitCl, SplitU, WholeH, WrappedCl, Water, Volume, WordAnd, LonePair}

InitLN ==
    /\ pc = "ln_start"
    /\ ln_parts \in UNION { [1..n -> LnFragments] : n \in 0..MaxParts }
    /\ ln_text = Flatten(ln_parts)
    /\ normalize_nuclides \in BOOLEAN
    /\ wrap_elements_mathrm \in BOOLEAN
    /\ ln_out = <<>>
    /\ ln_calls = 0
    /\ ln_first = <<>>
    /\ RestButLN

SpecLN == InitLN /\ [][NextLN]_vars

DefaultSettings == normalize_nuclides /\ wrap_elements_mathrm

\* The nuclide that starts with fragment i of parts, if one does: whether it
\* is split, its merged numbers, its element symbol, what is left of the
\* fragment the symbol stands in, and the fragment to go on with.  A lone
\* pair forms a nuclide with the H of the fragment after it.
NuclideAtPart(parts, i) ==
    LET f == parts[i]
        g == IF i < Len(parts) THEN parts[i + 1] ELSE <<>>
        h == IF i + 1 < Len(parts) THEN parts[i + 2] ELSE <<>>
        four == <<"4">>
        two == <<"2">>
        one == <<"1">>
        none == [is |-> FALSE, split |-> FALSE, mass |-> <<>>, atomic |-> <<>>,
                 sym |-> <<>>, rem |-> <<>>, next |-> i + 1]
    IN  CASE f = SplitCl ->
               [is |-> TRUE, split |-> TRUE, mass |-> <<"3", "5">>,
                atomic |-> <<"1", "7">>, sym |-> <<"C", "l">>, rem |-> <<>>,
                next |-> i + 1]
          [] f = SplitU ->
               [is |-> TRUE, split |-> TRUE, mass |-> <<"2", "3", "8">>,
                atomic |-> <<"9", "2">>, sym |-> <<"U">>, rem |-> <<>>,
                next |-> i + 1]
          [] f = WholeH ->
               [is |-> TRUE, split |-> FALSE, mass |-> one, atomic |-> one,
                sym |-> <<"H">>, rem |-> <<>>, next |-> i + 1]
          [] f = LonePair /\ g = WholeH ->
               [is |-> TRUE, split |-> TRUE, mass |-> four \o one,
                atomic |-> two \o one, sym |-> <<"H">>, rem |-> <<>>,
                next |-> i + 2]
          [] f = LonePair /\ g = Water ->
               [is |-> TRUE, split |-> FALSE, mass |-> four, atomic |-> two,
                sym |-> <<"H">>, rem |-> Tail(Water), next |-> i + 2]
          [] f = LonePair /\ g = LonePair /\ h = Water ->
               [is |-> TRUE, split |-> TRUE, mass |-> four \o four,
                atomic |-> two \o two, sym |-> <<"H">>, rem |-> Tail(Water),
                next |-> i + 3]
          [] OTHER -> none

\* What a text composed of the fragments parts[i..] is to become: each split
\* nuclide merged and wrapped, the element symbol being the capital and the
\* lowercase letter after it, if any; a nuclide in one piece wrapped if
\* wrapWhole; everything else as it is.
RECURSIVE ExpectedFrom(_, _, _)
ExpectedFrom(parts, i, wrapWhole) ==
    IF i > Len(parts) THEN <<>>
    ELSE
        LET n == NuclideAtPart(parts, i)
            j == n.next
            absorbs == /\ Len(n.sym) = 1 /\ n.rem = <<>> /\ j =< Len(parts)
                       /\ Head(parts[j]) \in LowerLetters
        IN  IF ~n.is \/ (~n.split /\ ~wrapWhole)
            THEN parts[i] \o ExpectedFrom(parts, i + 1, wrapWhole)
            ELSE IF absorbs
            THEN Sup(n.mass) \o Sub(n.atomic) \o Mathrm \o n.sym
                 \o <<Head(parts[j]), "}">> \o Tail(parts[j])
                 \o ExpectedFrom(parts, j + 1, wrapWhole)
            ELSE Sup(n.mass) \o Sub(n.atomic) \o Mathrm \o n.sym \o <<"}">>
                 \o n.rem \o ExpectedFrom(parts, j, wrapWhole)

FirstCallDone == pc = "ln_done" /\ ln_calls = 1 /\ DefaultSettings

\* C8 as stated: split nuclides are merged by concatenation and wrapped, and
\* all text outside split nuclides is returned unchanged.
C8_OutsideUnchanged ==
    FirstCallDone => ln_out = ExpectedFrom(ln_parts, 1, FALSE)

\* C8: with the default settings normalize merges each split nuclide
\* ^{A1}_{Z1}^{A2}_{Z2}El into ^{A1A2}_{Z1Z2}\mathrm{El}, the digit runs
\* concatenated in order; "^{3}_{1}^{5}_{7}Cl" becomes
\* "^{35}_{17}\mathrm{Cl}"; outside split nuclides the only change is that the
\* element symbol of an unwrapped nuclide ^{A}_{Z}El is wrapped in \mathrm{}.
C8_NuclideMerge ==
    FirstCallDone => ln_out = ExpectedFrom(ln_parts, 1, TRUE)

\* C8 witness: "^{3}_{1}^{5}_{7}Cl" was normalized to "^{35}_{17}\mathrm{Cl}".
C8_Witness ==
    /\ FirstCallDone
    /\ ln_text = SplitCl
    /\ ln_out = WrappedCl

Contains(t, lit) == \E i \in 1..Len(t) : Lit(t, i, lit)

\* C9: with the default settings a second normalize returns what the first
\* returned, and nothing is wrapped in \mathrm{} twice.
C9_Idempotent ==
    (pc = "ln_done" /\ ln_calls = 2 /\ DefaultSettings) =>
        /\ ln_out = ln_first
        /\ ~Contains(ln_out, Mathrm \o Mathrm)

\* C9 witness: a text with a lone pair before a split nuclide was merged and
\* wrapped by the first call and left alone by the second.
C9_Witness ==
    /\ pc = "ln_done" /\ ln_calls = 2 /\ DefaultSettings
    /\ ln_parts = <<LonePair, SplitCl>>
    /\ ln_first = LonePair \o WrappedCl
    /\ ln_out = ln_first

----------------------------------------------------------------------------
(* RegexNoiseFilter *)

MaxRxLines == 3               \* lines of a text

Whitespace == {" ", "\t", "\n", "\r"}

LowerSeq == <<"a", "b", "c", "d", "e", "f", "g", "h", "i", "j", "q", "l", "m",
             "n", "o", "p", "q", "r", "s", "t", "u", "v", "w", "x", "y", "z">>
UpperSeq == <<"A", "B", "C", "D", "E", "F", "G", "H", "I", "J", "K", "L", "M",
             "N", "O", "P", "Q", "R", "S", "T", "U", "V", "W", "X", "Y", "Z">>

\* str.upper() on one character and on a text.
Upper(c) ==
    IF c \in LowerLetters
    THEN UpperSeq[CHOOSE i \in 1..Len(LowerSeq) : LowerSeq[i] = c] ELSE c
UpperOf(t) == [i \in 1..Len(t) |-> Upper(t[i])]

\* \w of the regular expressions.
WordChars == Digits \cup UpperLetters \cup LowerLetters \cup {"_"}

AllIn(t, S) == \A i \in 1..Len(t) : t[i] \in S

RECURSIVE LStrip(_)
LStrip(t) ==
    IF t # <<>> /\ Head(t) \in Whitespace THEN LStrip(Tail(t)) ELSE t

RECURSIVE RStrip(_)
RStrip(t) ==
    IF t # <<>> /\ t[Len(t)] \in Whitespace
    THEN RStrip(SubSeq(t, 1, Len(t) - 1)) ELSE t

\* str.strip()
Strip(t) == RStrip(LStrip(t))

\* The position after the run of characters of S that starts at i.
RECURSIVE RunEnd(_, _, _)
RunEnd(t, i, S) == IF At(t, i) \in S THEN RunEnd(t, i + 1, S) ELSE i

\* Line 26: ^\s*\d+\s*$
OnlyNumber(line) ==
    LET t == Strip(line) IN t # <<>> /\ AllIn(t, Digits)

\* Line 27: ^\s*\*\s*\d{6,}\s*\*\s*$
PageCodeBetweenStars(line) ==
    LET t == Strip(line)
        inner == Strip(SubSeq(t, 2, Len(t) - 1))
    IN  /\ Len(t) >= 2 /\ t[1] = "*" /\ t[Len(t)] = "*"
        /\ Len(inner) >= 6 /\ AllIn(inner, Digits)

\* Line 29: ^[\s\.]{6,}$
DotsLine(line) == Len(line) >= 6 /\ AllIn(line, Whitespace \cup {"."})

\* Line 31: ^[\W_]{5,}$
OnlyPunct(line) ==
    /\ Len(line) >= 5
    /\ \A i \in 1..Len(line) : line[i] \notin (WordChars \ {"_"})

\* \b\d{4}/\d{2}/[A-Z]/[A-Z]/\d{2}\b at position i of the uppercased line.
ExamCodeAt(u, i) ==
    /\ At(u, i - 1) \notin WordChars
    /\ \A q \in {0, 1, 2, 3, 5, 6, 12, 13} : At(u, i + q) \in Digits
    /\ \A q \in {4, 7, 9, 11} : At(u, i + q) = "/"
    /\ \A q \in {8, 10} : At(u, i + q) \in UpperLetters
    /\ At(u, i + 14) \notin WordChars

\* Line 30: UCLES|Cambridge|<exam code>, anywhere, ignoring case.
CopyrightLine(line) ==
    LET u == UpperOf(line)
    IN  \E i \in 1..Len(u) :
            \/ Lit(u, i, <<"U", "C", "L", "E", "S">>)
            \/ Lit(u, i, <<"C", "A", "M", "B", "R", "I", "D", "G", "E">>)
            \/ ExamCodeAt(u, i)

\* Line 32: \[?\s*TURN\s+OVER\s*\]?, anywhere, ignoring case.
TurnOver(line) ==
    LET u == UpperOf(line)
    IN  \E i \in 1..Len(u) :
            /\ Lit(u, i, <<"T", "U", "R", "N">>)
            /\ RunEnd(u, i + 4, Whitespace) > i + 4
            /\ Lit(u, RunEnd(u, i + 4, Whitespace), <<"O", "V", "E", "R">>)

\* \d+\s*$ from position i.
NumberToEnd(u, i) ==
    LET e == RunEnd(u, i, Digits)
    IN  e > i /\ RunEnd(u, e, Whitespace) = Len(u) + 1

\* Line 33: ^(PAGE\s+\d+|Exclusion zones:\s*\d+|Characters:\s*\d+\s*/\s*\d+
\* |={10,})\s*$, ignoring case.
PageMetadata(line) ==
    LET u == UpperOf(line)
        ws(i) == RunEnd(u, i, Whitespace)
        d1 == RunEnd(u, ws(12), Digits)
        eq == RunEnd(u, 1, {"="})
    IN  \/ Lit(u, 1, <<"P", "A", "G", "E">>) /\ ws(5) > 5 /\ NumberToEnd(u, ws(5))
        \/ Lit(u, 1, <<"E", "X", "C", "L", "U", "S", "I", "O", "N", " ", "Z", "O", "N", "E", "S", ":">>) /\ NumberToEnd(u, ws(17))
        \/ /\ Lit(u, 1, <<"C", "H", "A", "R", "A", "C", "T", "E", "R", "S", ":">>) /\ d1 > ws(12)
           /\ At(u, ws(d1)) = "/" /\ NumberToEnd(u, ws(ws(d1) + 1))
        \/ eq > 10 /\ ws(eq) = Len(u) + 1

\* Lines 36-47.
MIRRORED_WARNING_TOKENS ==
    {<<"N", "I", "G", "R", "A", "M">>,
     <<"S", "I", "H", "T">>,
     <<"N", "I">>,
     <<"E", "T", "I", "R", "W">>,
     <<"T", "O", "N">>,
     <<"O", "D">>,
     <<"K", "C", "A", "L", "B">>,
     <<"E", "G", "A", "P">>,
     <<"D", "N", "A">>,
     <<"K", "N", "A", "L", "B">>}

\* Lines 50-55.
NOISE_CODES ==
    {<<"D", "F", "D">>,
     <<"D", "C">>,
     <<"W", "W">>,
     <<"C", "G", "W">>}

\* Line 225: the non-empty pieces of re.split(r"\s+", line.strip()).
RECURSIVE Tokens(_)
Tokens(line) ==
    LET t == LStrip(line)
        e == RunEnd(t, 1, {c \in {t[q] : q \in 1..Len(t)} : c \notin Whitespace})
    IN  IF t = <<>> THEN <<>>
        ELSE <<SubSeq(t, 1, e - 1)>> \o Tokens(SubSeq(t, e, Len(t)))

\* Lines 215-231: _looks_like_mirrored_warning.
LooksLikeMirroredWarning(line) ==
    LET tokens == Tokens(line)
        mirrored == Cardinality({q \in 1..Len(tokens) :
                                   UpperOf(tokens[q]) \in MIRRORED_WARNING_TOKENS})
    IN  tokens # <<>> /\ mirrored >= Max(2, Len(tokens) \div 2)

\* Lines 85-138: should_filter_line.
ShouldFilterLine(line) ==
    IF Strip(line) = <<>> THEN FALSE
    ELSE \/ filter_page_numbers /\ OnlyNumber(line)
         \/ filter_page_numbers /\ PageCodeBetweenStars(line)
         \/ filter_dots_punct /\ DotsLine(line)
         \/ filter_dots_punct /\ OnlyPunct(line)
         \/ filter_copyright /\ CopyrightLine(line)
         \/ filter_turn_over /\ TurnOver(line)
         \/ filter_page_metadata /\ PageMetadata(line)
         \/ filter_mirrored /\ LooksLikeMirroredWarning(line)
         \/ filter_mirrored
            /\ UpperOf(Strip(line)) \in MIRRORED_WARNING_TOKENS \cup NOISE_CODES

\* Where the match of one of clean_line's patterns that starts at i ends
\* (i itself if there is none).
MatchEnd(kind, t, i) ==
    CASE kind = "cid" ->           \* line 28: \(cid:\d+\)
           LET e == RunEnd(t, i + 5, Digits)
           IN  IF Lit(t, i, <<"(", "c", "i", "d", ":">>) /\ e > i + 5 /\ At(t, e) = ")"
               THEN e + 1 ELSE i
      [] kind = "code" ->          \* line 155: \^\{\*\d{6,}\*\}
           LET e == RunEnd(t, i + 3, Digits)
           IN  IF Lit(t, i, <<"^", "{", "*">>) /\ e >= i + 9 /\ Lit(t, e, <<"*", "}">>)
               THEN e + 2 ELSE i
      [] kind = "empty" ->         \* line 158: [\^_]\{\}
           IF At(t, i) \in {"^", "_"} /\ Lit(t, i + 1, <<"{", "}">>)
           THEN i + 3 ELSE i
      [] kind = "dots" ->          \* line 161: \.{6,}
           LET e == RunEnd(t, i, {"."}) IN IF e >= i + 6 THEN e ELSE i
      [] OTHER ->                  \* line 164: \s+
           RunEnd(t, i, Whitespace)

Replacement(kind) ==
    CASE kind = "dots" -> <<".", ".", ".">>
      [] kind = "space" -> <<" ">>
      [] OTHER -> <<>>

\* re.sub of one of the patterns, matches replaced left to right.
RECURSIVE SubFrom(_, _, _)
SubFrom(kind, t, i) ==
    IF i > Len(t) THEN <<>>
    ELSE LET e == MatchEnd(kind, t, i)
         IN  IF e > i THEN Replacement(kind) \o SubFrom(kind, t, e)
             ELSE <<t[i]>> \o SubFrom(kind, t, i + 1)

\* Lines 140-166: clean_line.
CleanLine(line) ==
    LET a == IF filter_cid_garbage THEN SubFrom("cid", line, 1) ELSE line
        b == SubFrom("code", a, 1)
        c == SubFrom("empty", b, 1)
        d == SubFrom("dots", c, 1)
    IN  Strip(SubFrom("space", d, 1))

\* str.splitlines()
RECURSIVE SplitLines(_)
SplitLines(t) ==
    LET e == RunEnd(t, 1, {c \in {t[q] : q \in 1..Len(t)} : c # "\n"})
    IN  IF t = <<>> THEN <<>>
        ELSE <<SubSeq(t, 1, e - 1)>> \o SplitLines(SubSeq(t, e + 1, Len(t)))

\* "\n".join(lines)
RECURSIVE Join(_)
Join(ls) ==
    IF ls = <<>> THEN <<>>
    ELSE IF Len(ls) = 1 THEN ls[1]
    ELSE ls[1] \o <<"\n">> \o Join(Tail(ls))

\* The lines with every blank line kept.
CollapseNone(ls, blank) == ls

\* Lines 202-211: runs of blank lines collapsed to one.
RECURSIVE Collapse(_, _)
Collapse(ls, blank) ==
    IF ls = <<>> THEN <<>>
    ELSE IF Head(ls) = <<>>
    THEN (IF blank THEN <<>> ELSE <<Head(ls)>>) \o Collapse(Tail(ls), TRUE)
    ELSE <<Head(ls)>> \o Collapse(Tail(ls), FALSE)

rxFlags ==
    <<filter_page_numbers, filter_copyright, filter_mirrored, filter_turn_over,
      filter_cid_garbage, filter_dots_punct, filter_page_metadata>>

\* Lines 178-180: the text is split into lines.
RX_Start ==
    /\ UNCHANGED notRX
    /\ pc = "rx_start"
    /\ raw_lines' = SplitLines(rx_text)
    /\ rx_i' = 1
    /\ cleaned_lines' = <<>>
    /\ rx_calls' = rx_calls + 1
    /\ pc' = "rx_lines"
    /\ UNCHANGED <<rx_text, rxFlags, rx_out, rx_first>>

\* Lines 180-199: one line is kept as a blank, dropped, or cleaned and kept
\* unless the cleaning left it empty.
RX_LineStep ==
    /\ UNCHANGED notRX
    /\ pc = "rx_lines"
    /\ rx_i =< Len(raw_lines)
    /\ LET line == raw_lines[rx_i]
       IN  cleaned_lines' =
               IF Strip(line) = <<>> THEN Append(cleaned_lines, <<>>)
               ELSE IF ShouldFilterLine(line) THEN cleaned_lines
               ELSE IF CleanLine(line) = <<>> THEN cleaned_lines
               ELSE Append(cleaned_lines, CleanLine(line))
    /\ rx_i' = rx_i + 1
    /\ UNCHANGED <<pc, rx_text, rxFlags, raw_lines, rx_out, rx_calls, rx_first>>

\* Lines 201-213: blank lines collapsed, the lines joined and stripped.
RX_Return ==
    /\ UNCHANGED notRX
    /\ pc = "rx_lines"
    /\ rx_i > Len(raw_lines)
    /\ rx_out' = Strip(Join(Collapse(cleaned_lines, FALSE)))
    /\ pc' = "rx_done"
    /\ UNCHANGED <<rx_text, rxFlags, raw_lines, rx_i, cleaned_lines, rx_calls,
                   rx_first>>

\* The caller filters the result once more.
RX_CallAgain ==
    /\ UNCHANGED notRX
    /\ pc = "rx_done"
    /\ rx_calls = 1
    /\ rx_first' = rx_out
    /\ rx_text' = rx_out
    /\ pc' = "rx_start"
    /\ UNCHANGED <<rxFlags, raw_lines, rx_i, cleaned_lines, rx_out, rx_calls>>

NextRX == RX_Start \/ RX_LineStep \/ RX_Return \/ RX_CallAgain

\* Lines of extracted text: plain text, a blank and a whitespace-only line,
\* lines the predicates remove, and lines clean_line changes.
RxLines ==
    {<<"a", "b", "c">>,
     <<>>,
     <<" ", " ">>,
     <<"(", "c", "i", "d", ":", "1", ")", "5">>,
     <<"a", "^", "{", "^", "{", "}", "}", "b">>,
     <<"1", "2">>,
     <<"(", "c", "i", "d", ":", "1", ")">>,
     <<"x", " ", ".", ".", ".", ".", ".", ".", ".">>,
     <<"N", "I", "G", "R", "A", "M", " ", "S", "I", "H", "T">>}

DefaultFlags ==
    /\ filter_page_numbers /\ filter_copyright /\ filter_mirrored
    /\ filter_turn_over /\ filter_cid_garbage /\ filter_dots_punct
    /\ filter_page_metadata

InitRX ==
    /\ pc = "rx_start"
    /\ rx_text \in { Join(ls) :
                       ls \in UNION { [1..n -> RxLines] : n \in 0..MaxRxLines } }
    /\ filter_page_numbers = TRUE /\ filter_copyright = TRUE
    /\ filter_mirrored = TRUE /\ filter_turn_over = TRUE
    /\ filter_cid_garbage \in BOOLEAN /\ filter_dots_punct = TRUE
    /\ filter_page_metadata = TRUE
    /\ raw_lines = <<>> /\ rx_i = 1 /\ cleaned_lines = <<>>
    /\ rx_out = <<>> /\ rx_calls = 0 /\ rx_first = <<>>
    /\ RestButRX

SpecRX == InitRX /\ [][NextRX]_vars

\* C6: a second filter_text returns what the first returned.
C6_Idempotent ==
    (pc = "rx_done" /\ rx_calls = 2) => rx_out = rx_first

----------------------------------------------------------------------------
(* NoiseDetector *)

MaxPages == 6                 \* pages of a document

\* Lines 21-24: the default thresholds.
header_threshold == 30 * Pt
footer_threshold == 780 * Pt
left_margin_threshold == 40 * Pt
right_margin_threshold == 570 * Pt

PageWidth == 595 * Pt
PageHeight == 842 * Pt
ZoneBuffer == 5 * Pt

\* Line 193: every \d+ replaced by [NUM].
RECURSIVE ReplaceNumbers(_, _)
ReplaceNumbers(t, i) ==
    IF i > Len(t) THEN <<>>
    ELSE LET e == RunEnd(t, i, Digits)
         IN  IF e > i THEN <<"[", "N", "U", "M", "]">> \o ReplaceNumbers(t, e)
             ELSE <<t[i]>> \o ReplaceNumbers(t, i + 1)

\* Line 192: ^[\*\[\(\{].*\d+.*[\*\]\)\}]$
BracketedNumber(t) ==
    /\ Len(t) >= 3
    /\ t[1] \in {"*", "[", "(", "{"}
    /\ t[Len(t)] \in {"*", "]", ")", "}"}
    /\ \E i \in 2..(Len(t) - 1) : t[i] \in Digits

\* Lines 169-195: _normalize_text; <<>> stands for None.
NormalizeText(text) ==
    IF Len(text) < 3 THEN <<>>
    ELSE IF AllIn(text, Digits) THEN <<>>
    ELSE IF Contains(UpperOf(text), <<"C", "I", "D", ":">>) THEN <<>>
    ELSE LET t == SubFrom("space", text, 1)
         IN  Strip(IF BracketedNumber(t) THEN ReplaceNumbers(t, 1) ELSE t)

\* defaultdict(int): d[key] += 1, the keys in the order of their insertion.
Increment(d, key) ==
    IF \E i \in 1..Len(d) : d[i].text = key
    THEN [i \in 1..Len(d) |->
            IF d[i].text = key THEN [d[i] EXCEPT !.count = @ + 1] ELSE d[i]]
    ELSE Append(d, [text |-> key, count |-> 1])

\* Lines 95, 102, 108, 114: is the word in the band?
InBand(band, word) ==
    CASE band = "header" -> word.top < header_threshold
      [] band = "footer" -> word.top > footer_threshold
      [] band = "left" -> word.x0 < left_margin_threshold
      [] OTHER -> word.x0 > right_margin_threshold

\* Lines 87-117 for one band: the words of a page from the i-th on counted.
RECURSIVE CountWords(_, _, _, _)
CountWords(d, words, i, band) ==
    IF i > Len(words) THEN d
    ELSE LET text == Strip(words[i].text)
             normalized == NormalizeText(text)
         IN  CountWords(IF /\ text # <<>> /\ InBand(band, words[i])
                           /\ normalized # <<>>
                        THEN Increment(d, normalized) ELSE d,
                        words, i + 1, band)

\* sorted(patterns, key=count, reverse=True): a stable insertion.
InsertByCount(sorted, p) ==
    LET pos == CHOOSE j \in 1..(Len(sorted) + 1) :
                   /\ \A i \in 1..(j - 1) : sorted[i].count >= p.count
                   /\ j =< Len(sorted) => sorted[j].count < p.count
    IN  SubSeq(sorted, 1, pos - 1) \o <<p>> \o SubSeq(sorted, pos, Len(sorted))

RECURSIVE SortByCount(_)
SortByCount(d) ==
    IF d = <<>> THEN <<>>
    ELSE InsertByCount(SortByCount(SubSeq(d, 1, Len(d) - 1)), d[Len(d)])

\* Lines 197-201: _filter_patterns.
FilterPatterns(text_counts, min_occ) ==
    LET Enough(p) == p.count >= min_occ
    IN  SortByCount(SelectSeq(text_counts, Enough))

RECURSIVE SortedSeq(_)
SortedSeq(S) ==
    IF S = {} THEN <<>>
    ELSE LET lo == CHOOSE x \in S : \A y \in S : x =< y
         IN  <<lo>> \o SortedSeq(S \ {lo})

\* The sample without the cap at sample_size.
GetSampleUncapped(total) ==
    SortedSeq({0} \cup (IF total > 1 THEN {1} ELSE {})
              \cup (IF total > 2 THEN {total \div 2} ELSE {})
              \cup (IF total > 3 THEN {total - 2} ELSE {})
              \cup {total - 1})

\* Lines 151-167: _get_sample_page_indices (page indices from 0).
GetSamplePageIndices(total) ==
    IF total =< sample_size THEN [i \in 1..total |-> i - 1]
    ELSE LET indices == {0} \cup (IF total > 1 THEN {1} ELSE {})
                        \cup (IF total > 2 THEN {total \div 2} ELSE {})
                        \cup (IF total > 3 THEN {total - 2} ELSE {})
                        \cup {total - 1}
             sorted == SortedSeq(indices)
         IN  SubSeq(sorted, 1, Min(sample_size, Len(sorted)))

MaxOver(S, zero) == IF S = {} THEN zero ELSE CHOOSE x \in S : \A y \in S : y =< x
MinOver(S, top) == IF S = {} THEN top ELSE CHOOSE x \in S : \A y \in S : x =< y

IsPattern(word, patterns) ==
    \E i \in 1..Len(patterns) : NormalizeText(word.text) = patterns[i].text

FirstPages == 1..Min(10, Len(pages))

WordsOf(p) == {pages[p][i] : i \in 1..Len(pages[p])}

\* Lines 203-233: _determine_header_zones.
DetermineHeaderZones(patterns) ==
    LET maxY(p) == MaxOver({w.bottom : w \in {w \in WordsOf(p) :
                                InBand("header", w) /\ IsPattern(w, patterns)}}, 0)
        zones == {maxY(p) + ZoneBuffer : p \in {p \in FirstPages : maxY(p) > 0}}
    IN  IF patterns = <<>> \/ zones = {} THEN <<>>
        ELSE <<[y_min |-> 0, y_max |-> MaxOver(zones, 0), type |-> "header"]>>

\* Lines 235-266: _determine_footer_zones.
DetermineFooterZones(patterns) ==
    LET minY(p) == MinOver({w.top : w \in {w \in WordsOf(p) :
                                InBand("footer", w) /\ IsPattern(w, patterns)}},
                           PageHeight)
        zones == {minY(p) - ZoneBuffer :
                      p \in {p \in FirstPages : minY(p) < PageHeight}}
    IN  IF patterns = <<>> \/ zones = {} THEN <<>>
        ELSE <<[y_min |-> MinOver(zones, 0), y_max |-> PageHeight,
                type |-> "footer"]>>

\* Lines 268-315: _determine_margin_zones.
DetermineMarginZones(patterns, side) ==
    LET maxX(p) == MaxOver({w.x1 : w \in {w \in WordsOf(p) :
                                InBand("left", w) /\ IsPattern(w, patterns)}}, 0)
        minX(p) == MinOver({w.x0 : w \in {w \in WordsOf(p) :
                                InBand("right", w) /\ IsPattern(w, patterns)}},
                           PageWidth)
        left == {maxX(p) + ZoneBuffer : p \in {p \in FirstPages : maxX(p) > 0}}
        right == {minX(p) - ZoneBuffer :
                      p \in {p \in FirstPages : minX(p) < PageWidth}}
    IN  IF patterns = <<>> THEN <<>>
        ELSE IF side = "left"
        THEN IF left = {} THEN <<>>
             ELSE <<[x_min |-> 0, x_max |-> MaxOver(left, 0),
                     type |-> "left_margin"]>>
        ELSE IF right = {} THEN <<>>
             ELSE <<[x_min |-> MinOver(right, 0), x_max |-> PageWidth,
                     type |-> "right_margin"]>>

ndConfig == <<pages, sample_size, min_frequency_pct>>
ndTexts == <<header_texts, footer_texts, left_margin_texts, right_margin_texts>>

\* Lines 66-78: the pages to sample are chosen, the counters are empty.
ND_Start ==
    /\ UNCHANGED notND
    /\ pc = "nd_start"
    /\ sample_indices' = GetSamplePageIndices(Len(pages))
    /\ nd_i' = 1
    /\ header_texts' = <<>> /\ footer_texts' = <<>>
    /\ left_margin_texts' = <<>> /\ right_margin_texts' = <<>>
    /\ pc' = "nd_sample"
    /\ UNCHANGED <<ndConfig, min_occurrences, noise_patterns, nd_zones>>

\* Lines 80-117: the words of one sampled page are counted in their bands.
ND_SamplePage ==
    /\ UNCHANGED notND
    /\ pc = "nd_sample"
    /\ nd_i =< Len(sample_indices)
    /\ LET words == pages[sample_indices[nd_i] + 1]
       IN  /\ header_texts' = CountWords(header_texts, words, 1, "header")
           /\ footer_texts' = CountWords(footer_texts, words, 1, "footer")
           /\ left_margin_texts' =
                  CountWords(left_margin_texts, words, 1, "left")
           /\ right_margin_texts' =
                  CountWords(right_margin_texts, words, 1, "right")
    /\ nd_i' = nd_i + 1
    /\ UNCHANGED <<pc, ndConfig, sample_indices, min_occurrences,
                   noise_patterns, nd_zones>>

\* Lines 119-128: the threshold, and the texts that reach it.
ND_Patterns ==
    /\ UNCHANGED notND
    /\ pc = "nd_sample"
    /\ nd_i > Len(sample_indices)
    /\ LET num_samples == Len(sample_indices)
           min_occ == Max(2, (num_samples * min_frequency_pct) \div 100)
       IN  /\ min_occurrences' = min_occ
           /\ noise_patterns' =
                  [header_patterns |-> FilterPatterns(header_texts, min_occ),
                   footer_patterns |-> FilterPatterns(footer_texts, min_occ),
                   left_margin_patterns |->
                       FilterPatterns(left_margin_texts, min_occ),
                   right_margin_patterns |->
                       FilterPatterns(right_margin_texts, min_occ)]
    /\ pc' = "nd_zones"
    /\ UNCHANGED <<ndConfig, sample_indices, nd_i, ndTexts, nd_zones>>

\* Lines 130-149: the zones of the promoted patterns, and the return.
ND_Return ==
    /\ UNCHANGED notND
    /\ pc = "nd_zones"
    /\ nd_zones' =
           [header_zones |-> DetermineHeaderZones(noise_patterns.header_patterns),
            footer_zones |-> DetermineFooterZones(noise_patterns.footer_patterns),
            left_margin_zones |->
                DetermineMarginZones(noise_patterns.left_margin_patterns, "left"),
            right_margin_zones |->
                DetermineMarginZones(noise_patterns.right_margin_patterns,
                                     "right")]
    /\ pc' = "nd_done"
    /\ UNCHANGED <<ndConfig, sample_indices, nd_i, ndTexts, min_occurrences,
                   noise_patterns>>

NextND == ND_Start \/ ND_SamplePage \/ ND_Patterns \/ ND_Return

\* Words of a page: a running head, a page code in the footer, a body word,
\* a page number in the header, a short warning in the left margin.
Word(text, x0, top) ==
    [text |-> text, x0 |-> x0 * Pt, x1 |-> (x0 + 6 * Len(text)) * Pt,
     top |-> top * Pt, bottom |-> (top + 10) * Pt]

RunningHead == Word(<<"C", "h", "e", "m", "i", "s", "t", "r", "y">>, 250, 15)
PageCode == Word(<<"*", "0", "0", "0", "8", "*">>, 280, 800)
BodyWord == Word(<<"w", "a", "t", "e", "r">>, 100, 400)
PageNumber == Word(<<"1", "2">>, 300, 15)
MarginWord == Word(<<"D", "O">>, 10, 400)

PageKinds ==
    {<<>>,
     <<RunningHead, PageCode>>,
     <<RunningHead, PageNumber, BodyWord, MarginWord>>}

\* (sample_size, min_frequency in percent)
NdSettings == {<<5, 50>>, <<4, 50>>, <<5, 70>>}

InitND ==
    /\ pc = "nd_start"
    /\ pages \in UNION { [1..n -> PageKinds] : n \in 1..MaxPages }
    /\ \E s \in NdSettings : sample_size = s[1] /\ min_frequency_pct = s[2]
    /\ sample_indices = <<>> /\ nd_i = 1
    /\ header_texts = <<>> /\ footer_texts = <<>>
    /\ left_margin_texts = <<>> /\ right_margin_texts = <<>>
    /\ min_occurrences = 0
    /\ noise_patterns = NoPatterns
    /\ nd_zones = NoZones
    /\ RestButND

SpecND == InitND /\ [][NextND]_vars

Promoted(patterns, text) == \E i \in 1..Len(patterns) : patterns[i].text = text

CountOf(d, text) ==
    IF \E i \in 1..Len(d) : d[i].text = text
    THEN d[CHOOSE i \in 1..Len(d) : d[i].text = text].count ELSE 0

\* C10: a band text is promoted exactly when its count over the sampled
\* pages is at least max(2, samples * min_frequency), the product not
\* rounded down: with 5 sampled pages and min_frequency 0.5 a count of 3 is
\* promoted and a count of 2 is not.
C10_PromotionThreshold ==
    pc = "nd_done" =>
        \A text \in {header_texts[i].text : i \in 1..Len(header_texts)} :
            Promoted(noise_patterns.header_patterns, text)
            <=> /\ CountOf(header_texts, text) >= 2
                /\ 100 * CountOf(header_texts, text)
                       >= Len(sample_indices) * min_frequency_pct

----------------------------------------------------------------------------
(* reconstruct_formulas *)

MaxChars == 3                 \* characters on a page

CharWidth == 6 * Pt           \* glyph advance of the synthetic characters

\* The thresholds of reconstruct_formulas, in model units.
SameLineGap == 3 * Pt         \* vertical_gap < 3.0
NewLineGap == 8 * Pt          \* vertical_gap > 8.0
HalfPoint == Pt \div 2        \* line_baseline_top +/- 0.5
ArrowYReach == 10 * Pt        \* abs(char_y - arrow['y']) < 10
ArrowXReach == 5 * Pt         \* arrow['x_start'] - 5 .. arrow['x_end'] + 5

\* char['size'] < baseline_size * 0.80
IsSmall(size, bsize) == size * 100 < bsize * 80

\* vertical_gap < baseline_size * 0.8
IsSlightlyOffset(gap, bsize) == gap * 10 < bsize * 8

\* round(t, 1) of a position on the 0.25 pt grid: to the nearest 0.1 pt, a tie
\* (x.x5) going to the even tenth, as Python rounds an exactly representable
\* float.
Round1(t) ==
    LET r == t % 2
        lower == t - r
    IN  IF r = 0 THEN t
        ELSE IF (lower \div 2) % 2 = 0 THEN lower ELSE lower + 2

\* sorted(chars, key=lambda x: (x['top'], x['x0'])): a stable sort.
LessTopX0(a, b) == a.top < b.top \/ (a.top = b.top /\ a.x0 < b.x0)

InsertTopX0(t, c) ==
    LET n == Cardinality({i \in 1..Len(t) : ~LessTopX0(c, t[i])})
    IN  SubSeq(t, 1, n) \o <<c>> \o SubSeq(t, n + 1, Len(t))

RECURSIVE SortTopX0(_)
SortTopX0(s) ==
    IF s = <<>> THEN <<>>
    ELSE InsertTopX0(SortTopX0(SubSeq(s, 1, Len(s) - 1)), s[Len(s)])

\* sorted(line_chars, key=lambda x: x['x0']): a stable sort.
InsertX0(t, c) ==
    LET n == Cardinality({i \in 1..Len(t) : t[i].x0 =< c.x0})
    IN  SubSeq(t, 1, n) \o <<c>> \o SubSeq(t, n + 1, Len(t))

RECURSIVE SortX0(_)
SortX0(s) ==
    IF s = <<>> THEN <<>>
    ELSE InsertX0(SortX0(SubSeq(s, 1, Len(s) - 1)), s[Len(s)])

\* Counter([round(t, 1) ...]).most_common(1)[0][0]: the most frequent value,
\* the one seen first among equally frequent ones.
Count(s, v) == Cardinality({i \in 1..Len(s) : s[i] = v})

MostCommon(s) ==
    LET best == CHOOSE i \in 1..Len(s) :
                    /\ \A j \in 1..Len(s) : Count(s, s[j]) =< Count(s, s[i])
                    /\ \A j \in 1..(i - 1) : Count(s, s[j]) < Count(s, s[i])
    IN  s[best]

RECURSIVE SelectNormal(_, _)
SelectNormal(s, bsize) ==
    IF s = <<>> THEN <<>>
    ELSE IF ~IsSmall(Head(s).size, bsize)
         THEN <<Head(s)>> \o SelectNormal(Tail(s), bsize)
         ELSE SelectNormal(Tail(s), bsize)

RECURSIVE MapTopRound(_)
MapTopRound(s) ==
    IF s = <<>> THEN <<>> ELSE <<Round1(Head(s).top)>> \o MapTopRound(Tail(s))

\* The page baseline taken for every line.
LineBaselineIsPage(lc, bsize, btop) == btop

\* Lines 405-414: the baseline of one line.
LineBaselineTop(lc, bsize, btop) ==
    LET normal_size_chars == SelectNormal(lc, bsize)
    IN  IF normal_size_chars # <<>>
        THEN MostCommon(MapTopRound(normal_size_chars))
        ELSE btop

\* Lines 369-387: does the walked character stay on the line being built?
StaysOnLineNaive(char, prev, bsize) == Abs(char.top - prev.top) =< NewLineGap
StaysOnLine(char, prev, bsize) ==
    LET vertical_gap == Abs(char.top - prev.top)
        is_small == IsSmall(char.size, bsize)
        is_slightly_offset == IsSlightlyOffset(vertical_gap, bsize)
    IN  IF vertical_gap < SameLineGap THEN TRUE
        ELSE IF is_small /\ is_slightly_offset THEN TRUE
        ELSE IF vertical_gap > NewLineGap /\ ~is_small THEN FALSE
        ELSE vertical_gap * 2 < bsize * 3

\* char_text.strip() == ''
IsSpaceText(t) == t \in {" ", "\t", "\n"}

\* Lines 463-470: the index of the first arrow at the character's position,
\* 0 when there is none.
ArrowMatches(char, arrow) ==
    /\ Abs(char.top - arrow.y) < ArrowYReach
    /\ arrow.x_start - ArrowXReach =< char.x0
    /\ char.x0 =< arrow.x_end + ArrowXReach

ArrowAtPosition(char, arrs) ==
    IF \E i \in 1..Len(arrs) : ArrowMatches(char, arrs[i])
    THEN CHOOSE i \in 1..Len(arrs) :
            /\ ArrowMatches(char, arrs[i])
            /\ \A j \in 1..(i - 1) : ~ArrowMatches(char, arrs[j])
    ELSE 0

\* Lines 433-440: the classification of a character against its line.
IsSubscriptAtHalf(char, bsize, lbt) ==
    IsSmall(char.size, bsize) /\ char.top >= lbt + HalfPoint
IsSubscript(char, bsize, lbt) ==
    IsSmall(char.size, bsize) /\ char.top > lbt + HalfPoint

IsSuperscript(char, bsize, lbt) ==
    /\ IsSmall(char.size, bsize)
    /\ ~(char.top > lbt + HalfPoint)
    /\ char.top < lbt - HalfPoint

\* Lines 333-351: the early return on no characters, else the sort.
RF_Start ==
    /\ UNCHANGED notRF
    /\ pc = "rf_start"
    /\ IF chars = <<>>
       THEN /\ pc' = "rf_done"
            /\ UNCHANGED sorted_by_y
       ELSE /\ pc' = "rf_group"
            /\ sorted_by_y' = SortTopX0(chars)
    /\ UNCHANGED <<chars, baseline_size, baseline_top, arrows, k, lines,
                   current_line, line_idx, line_chars, line_baseline_top,
                   inserted_arrows, char_idx, prev_x1, current_format,
                   is_subscript, is_superscript, result>>

\* Lines 353-389: one iteration of the line-grouping walk.
RF_GroupStep ==
    /\ UNCHANGED notRF
    /\ pc = "rf_group"
    /\ k =< Len(sorted_by_y)
    /\ LET char == sorted_by_y[k]
       IN  IF k = 1
           THEN /\ current_line' = <<char>>
                /\ UNCHANGED lines
           ELSE IF StaysOnLine(char, sorted_by_y[k - 1], baseline_size)
           THEN /\ current_line' = Append(current_line, char)
                /\ UNCHANGED lines
           ELSE /\ lines' = IF current_line # <<>>
                            THEN Append(lines, current_line) ELSE lines
                /\ current_line' = <<char>>
    /\ k' = k + 1
    /\ UNCHANGED <<pc, chars, baseline_size, baseline_top, arrows, sorted_by_y,
                   line_idx, line_chars, line_baseline_top, inserted_arrows,
                   char_idx, prev_x1, current_format, is_subscript,
                   is_superscript, result>>

\* Lines 391-396: the last line is kept; the per-line pass begins.
RF_GroupEnd ==
    /\ UNCHANGED notRF
    /\ pc = "rf_group"
    /\ k > Len(sorted_by_y)
    /\ lines' = IF current_line # <<>> THEN Append(lines, current_line) ELSE lines
    /\ line_idx' = 1
    /\ pc' = "rf_line"
    /\ UNCHANGED <<chars, baseline_size, baseline_top, arrows, sorted_by_y, k,
                   current_line, line_chars, line_baseline_top,
                   inserted_arrows, char_idx, prev_x1, current_format,
                   is_subscript, is_superscript, result>>

\* Lines 398-421: a line is sorted, its baseline found, its trackers reset.
RF_LineStart ==
    /\ UNCHANGED notRF
    /\ pc = "rf_line"
    /\ line_idx =< Len(lines)
    /\ LET lc == SortX0(lines[line_idx])
       IN  /\ line_chars' = lc
           /\ line_baseline_top' = LineBaselineTop(lc, baseline_size, baseline_top)
    /\ inserted_arrows' = {}
    /\ prev_x1' = <<>>
    /\ current_format' = "normal"
    /\ char_idx' = 1
    /\ pc' = "rf_chars"
    /\ UNCHANGED <<chars, baseline_size, baseline_top, arrows, sorted_by_y, k,
                   lines, current_line, line_idx, is_subscript,
                   is_superscript, result>>

\* The tokens reconstruct_formulas emits.
SubOpen == <<"_", "{">>
SuperOpen == <<"^", "{">>
GroupClose == <<"}">>
ArrowTokenBare(arrow) == arrow.direction
ArrowToken(arrow) == <<" ">> \o arrow.direction \o <<" ">>

\* The word space before a character of any classification.
AfterGapAnyKind(char, sub, super, px1, fmt, res, bsize) ==
    IF px1 # <<>> /\ (char.x0 - px1[1]) * 4 > bsize
    THEN [res |-> (IF fmt # "normal" THEN res \o GroupClose ELSE res) \o <<" ">>,
          fmt |-> "normal"]
    ELSE [res |-> res, fmt |-> fmt]

\* Lines 445-453: the word space before a character classified normal
\* (prev_x1 is <<>> for None); yields the text and the open format.
AfterGap(char, sub, super, px1, fmt, res, bsize) ==
    IF px1 # <<>> /\ ~sub /\ ~super /\ (char.x0 - px1[1]) * 4 > bsize
    THEN [res |-> (IF fmt # "normal" THEN res \o GroupClose ELSE res) \o <<" ">>,
          fmt |-> "normal"]
    ELSE [res |-> res, fmt |-> fmt]

\* Lines 494-505: a space character with no arrow, before a sub/superscript.
NextIsSubOrSuper(lc, idx, bsize, lbt) ==
    /\ idx + 1 =< Len(lc)
    /\ IsSmall(lc[idx + 1].size, bsize)
    /\ (lc[idx + 1].top > lbt + HalfPoint \/ lc[idx + 1].top < lbt - HalfPoint)

\* The markers with a group opened inside the one that is open.
ApplyFormatNested(sub, super, fmt, res) ==
    IF sub
    THEN IF fmt # "sub" THEN [res |-> res \o SubOpen, fmt |-> "sub"]
         ELSE [res |-> res, fmt |-> fmt]
    ELSE IF super
    THEN IF fmt # "super" THEN [res |-> res \o SuperOpen, fmt |-> "super"]
         ELSE [res |-> res, fmt |-> fmt]
    ELSE IF fmt # "normal" THEN [res |-> res \o GroupClose, fmt |-> "normal"]
         ELSE [res |-> res, fmt |-> fmt]

\* Lines 507-528: the group markers before the character's own text.
ApplyFormat(sub, super, fmt, res) ==
    IF sub
    THEN IF fmt # "sub"
         THEN [res |-> (IF fmt = "super" THEN res \o GroupClose ELSE res) \o SubOpen,
               fmt |-> "sub"]
         ELSE [res |-> res, fmt |-> fmt]
    ELSE IF super
    THEN IF fmt # "super"
         THEN [res |-> (IF fmt = "sub" THEN res \o GroupClose ELSE res) \o SuperOpen,
               fmt |-> "super"]
         ELSE [res |-> res, fmt |-> fmt]
    ELSE IF fmt # "normal"
         THEN [res |-> res \o GroupClose, fmt |-> "normal"]
         ELSE [res |-> res, fmt |-> fmt]

\* Line 472: has the arrow at the position already been inserted?  The set
\* holds the arrows inserted on the line being processed.
AlreadyInserted(arrow_id, inserted) == arrow_id \in inserted

\* Lines 423-531: the loop body for one character of the line.
RF_CharStep ==
    /\ UNCHANGED notRF
    /\ pc = "rf_chars"
    /\ char_idx =< Len(line_chars)
    /\ LET char == line_chars[char_idx]
           sub == IsSubscript(char, baseline_size, line_baseline_top)
           super == IsSuperscript(char, baseline_size, line_baseline_top)
           g == AfterGap(char, sub, super, prev_x1, current_format, result,
                         baseline_size)
           arrow_id == ArrowAtPosition(char, arrows)
           f == ApplyFormat(sub, super, g.fmt, g.res)
       IN  /\ is_subscript' = sub
           /\ is_superscript' = super
           /\ IF IsSpaceText(char.text) /\ arrow_id # 0
                 /\ ~AlreadyInserted(arrow_id, inserted_arrows)
              THEN /\ result' = (IF g.fmt # "normal" THEN g.res \o GroupClose
                                 ELSE g.res) \o ArrowToken(arrows[arrow_id])
                   /\ current_format' = "normal"
                   /\ inserted_arrows' = inserted_arrows \cup {arrow_id}
                   /\ prev_x1' = <<char.x1>>
              ELSE IF IsSpaceText(char.text) /\ arrow_id # 0
              THEN /\ result' = g.res
                   /\ current_format' = g.fmt
                   /\ prev_x1' = <<char.x1>>
                   /\ UNCHANGED inserted_arrows
              ELSE IF IsSpaceText(char.text)
                      /\ NextIsSubOrSuper(line_chars, char_idx, baseline_size,
                                          line_baseline_top)
              THEN /\ result' = g.res
                   /\ current_format' = g.fmt
                   /\ UNCHANGED <<prev_x1, inserted_arrows>>
              ELSE /\ result' = f.res \o <<char.text>>
                   /\ current_format' = f.fmt
                   /\ prev_x1' = <<char.x1>>
                   /\ UNCHANGED inserted_arrows
    /\ char_idx' = char_idx + 1
    /\ UNCHANGED <<pc, chars, baseline_size, baseline_top, arrows, sorted_by_y,
                   k, lines, current_line, line_idx, line_chars,
                   line_baseline_top>>

\* Lines 533-540: the open group is closed and the lines are separated.
RF_LineEnd ==
    /\ UNCHANGED notRF
    /\ pc = "rf_chars"
    /\ char_idx > Len(line_chars)
    /\ result' = (IF current_format # "normal" THEN result \o GroupClose
                  ELSE result)
                 \o (IF line_idx < Len(lines) THEN <<"\n">> ELSE <<>>)
    /\ current_format' = "normal"
    /\ line_idx' = line_idx + 1
    /\ pc' = "rf_line"
    /\ UNCHANGED <<chars, baseline_size, baseline_top, arrows, sorted_by_y, k,
                   lines, current_line, line_chars, line_baseline_top,
                   inserted_arrows, char_idx, prev_x1, is_subscript,
                   is_superscript>>

\* Line 542: return ''.join(result).
RF_Return ==
    /\ UNCHANGED notRF
    /\ pc = "rf_line"
    /\ line_idx > Len(lines)
    /\ pc' = "rf_done"
    /\ UNCHANGED rfVars

NextRF ==
    \/ RF_Start
    \/ RF_GroupStep
    \/ RF_GroupEnd
    \/ RF_LineStart
    \/ RF_CharStep
    \/ RF_LineEnd
    \/ RF_Return

\* A page of characters set left to right from x = 100 pt, one glyph advance
\* apart, each of a kind (text, top, size).
XOrigin == 100 * Pt

PageChars(f) ==
    [i \in DOMAIN f |->
        [text |-> f[i].text, top |-> f[i].top, size |-> f[i].size,
         x0 |-> XOrigin + (i - 1) * CharWidth,
         x1 |-> XOrigin + i * CharWidth]]

Kind(t, top, size) == [text |-> t, top |-> top, size |-> size]

\* Kinds on the lines at 100 pt and 108.25 pt: normal glyphs, sub- and
\* superscripts, and the boundary positions of every threshold.
RFKinds ==
    { Kind("H", 2000, 200),     \* normal, top 100, size 10
      Kind("O", 2000, 200),
      Kind("2", 2060, 140),     \* size 7, 3 pt lower
      Kind("+", 1950, 140),     \* size 7, 2.5 pt higher
      Kind("2", 2010, 140),     \* size 7, 0.5 pt lower
      Kind("x", 2060, 160),     \* size 8, 3 pt lower
      Kind("n", 2160, 200),     \* normal, 8 pt lower
      Kind("N", 2165, 200),     \* normal, 8.25 pt lower
      Kind("3", 2180, 140),     \* size 7, 9 pt lower
      Kind("4", 2320, 140) }    \* size 7, 16 pt lower

RFPages(kinds) ==
    UNION { {PageChars(f) : f \in [1..n -> kinds]} : n \in 0..MaxChars }

InitRF ==
    /\ pc = "rf_start"
    /\ chars \in RFPages(RFKinds)
    /\ baseline_size \in {200, 240}
    /\ baseline_top \in {2000, 2320}
    /\ arrows = <<>>
    /\ RFLocalsInit
    /\ RestButRF

SpecRF == InitRF /\ [][NextRF]_vars

\* Pages with space characters on the lines at 100 pt and 112 pt, and the
\* arrows of the page: one at y = 105 pt spanning x 100..115 pt, and an
\* equilibrium arrow at y = 150 pt that no character is near.
RFAKinds ==
    { Kind(" ", 2000, 200),
      Kind(" ", 2240, 200),
      Kind("A", 2000, 200),
      Kind("B", 2240, 200),
      Kind("2", 2060, 140) }

Arrow(xs, xe, y, dir) == [x_start |-> xs, x_end |-> xe, y |-> y, direction |-> dir]

RFAArrows ==
    { <<>>,
      <<Arrow(2000, 2300, 2100, <<"-", ">">>)>>,
      <<Arrow(2000, 2300, 3000, <<"<", "=", ">">>),
        Arrow(2000, 2300, 2100, <<"-", ">">>)>> }

InitRFA ==
    /\ pc = "rf_start"
    /\ chars \in RFPages(RFAKinds)
    /\ baseline_size = 200
    /\ baseline_top = 2000
    /\ arrows \in RFAArrows
    /\ RFLocalsInit
    /\ RestButRF

SpecRFA == InitRFA /\ [][NextRF]_vars

\* The number of places where pat occurs in the text s.
Occurrences(s, pat) ==
    Cardinality({i \in 1..(Len(s) - Len(pat) + 1) :
                    SubSeq(s, i, i + Len(pat) - 1) = pat})

\* "Below 80% of the page baseline size", stated on the sizes themselves.
Below80(size, bsize) == 5 * size < 4 * bsize

H2OPage ==
    PageChars(<<Kind("H", 2000, 200), Kind("2", 2060, 140), Kind("O", 2000, 200)>>)

\* C1: a character is classified subscript exactly when its size is below
\* 80% of the page baseline size and its top is more than 0.5 pt greater than
\* its line's baseline, superscript exactly when it is that small and its top
\* is more than 0.5 pt less, and normal otherwise; H (top 100, size 10),
\* 2 (top 103, size 7), O (top 100, size 10) with baseline 100 / 10 and no
\* arrows give exactly H_{2}O.
C1_Classification ==
    /\ (pc = "rf_chars" /\ char_idx > 1) =>
          LET c == line_chars[char_idx - 1]
          IN  /\ is_subscript <=> (Below80(c.size, baseline_size)
                                   /\ c.top - line_baseline_top > Pt \div 2)
              /\ is_superscript <=> (Below80(c.size, baseline_size)
                                     /\ line_baseline_top - c.top > Pt \div 2)
    /\ (pc = "rf_done" /\ chars = H2OPage /\ baseline_size = 10 * Pt
        /\ baseline_top = 100 * Pt /\ arrows = <<>>) =>
          result = <<"H", "_", "{", "2", "}", "O">>

\* C1 witness: the H2O page has been reconstructed, its 2 as a subscript.
C1_Witness ==
    /\ pc = "rf_done" /\ chars = H2OPage
    /\ baseline_size = 10 * Pt /\ baseline_top = 100 * Pt
    /\ result = <<"H", "_", "{", "2", "}", "O">>

\* C2: in the walk over the characters sorted by (top, x0), a character whose
\* vertical gap to the previous one is below 3 pt joins the current line
\* whatever its size; a character below 80% of the baseline size whose gap is
\* below 80% of the baseline size joins the current line; a normal-sized
\* character whose gap exceeds 8 pt starts a new line.
C2_LineGrouping ==
    [][ (pc = "rf_group" /\ k > 1 /\ k =< Len(sorted_by_y)) =>
          LET c == sorted_by_y[k]
              gap == Abs(c.top - sorted_by_y[k - 1].top)
              small == Below80(c.size, baseline_size)
              joins == current_line' = Append(current_line, c) /\ lines' = lines
              starts == current_line' = <<c>>
                        /\ lines' = Append(lines, current_line)
          IN  /\ gap < 3 * Pt => joins
              /\ (small /\ 5 * gap < 4 * baseline_size) => joins
              /\ (~small /\ gap > 8 * Pt) => starts ]_vars

\* C2 witness: a small character more than 8 pt below the previous character,
\* yet within 80% of the baseline size, has joined the line.
C2_Witness ==
    /\ pc = "rf_group" /\ k > 2
    /\ LET c == sorted_by_y[k - 1]
           gap == Abs(c.top - sorted_by_y[k - 2].top)
       IN  /\ Below80(c.size, baseline_size)
           /\ gap > 8 * Pt
           /\ 5 * gap < 4 * baseline_size
           /\ Len(current_line) >= 2
           /\ current_line[Len(current_line)] = c

\* C3: each arrow's direction token is emitted at most once in the whole
\* returned page text, however many space characters, on one line or on
\* several, lie at the arrow's position.
C3_ArrowOnce ==
    pc = "rf_done" =>
        \A i \in 1..Len(arrows) : Occurrences(result, arrows[i].direction) =< 1

----------------------------------------------------------------------------
(* Floating-point arithmetic *)

\* Bits of the significand.  Python floats keep 53; the operations below
\* round the same way (to nearest, ties to even) at a width whose products
\* stay within the integers.
FloatBits == 11

RECURSIVE Pow2(_)
Pow2(n) == IF n = 0 THEN 1 ELSE 2 * Pow2(n - 1)

\* The number of bits of a positive integer.
RECURSIVE BitLength(_)
BitLength(n) == IF n = 0 THEN 0 ELSE 1 + BitLength(n \div 2)

FZero == [m |-> 0, e |-> 0]

\* The float nearest to n * 2^e (n >= 0), ties to the even significand.
RoundTo(n, e) ==
    IF n = 0 THEN FZero
    ELSE LET s == BitLength(n) - FloatBits
         IN  IF s =< 0 THEN [m |-> n * Pow2(-s), e |-> e + s]
             ELSE LET q == n \div Pow2(s)
                      r == n % Pow2(s)
                      half == Pow2(s - 1)
                      up == r > half \/ (r = half /\ q % 2 = 1)
                      m == IF up THEN q + 1 ELSE q
                  IN  IF m = Pow2(FloatBits)
                      THEN [m |-> Pow2(FloatBits - 1), e |-> e + s + 1]
                      ELSE [m |-> m, e |-> e + s]

\* float(n) of an integer n >= 0
FromInt(n) == RoundTo(n, 0)

\* a * b
FMul(a, b) == RoundTo(a.m * b.m, a.e + b.e)

\* a / b (b # 0): the quotient to FloatBits + 2 bits and a sticky bit.
FDiv(a, b) ==
    LET n == a.m * Pow2(FloatBits + 2)
        q == n \div b.m
        sticky == IF n % b.m = 0 THEN 0 ELSE 1
    IN  RoundTo(2 * q + sticky, a.e - b.e - FloatBits - 3)

----------------------------------------------------------------------------
(* pixel_bbox_to_pdf_bbox and convert_pdf_bbox_to_pixel_bbox *)

PointsPerInch == FromInt(72)

\* coordinate_converter.py lines 28-40: pixels to PDF points.
PixelBBoxToPdfBBox(pixel_bbox, page_width_pdf, page_height_pdf, dpi) ==
    LET scale_x == FDiv(page_width_pdf,
                        FMul(FDiv(page_width_pdf, PointsPerInch), FromInt(dpi)))
        scale_y == FDiv(page_height_pdf,
                        FMul(FDiv(page_height_pdf, PointsPerInch), FromInt(dpi)))
    IN  <<FMul(FromInt(pixel_bbox[1]), scale_x),
          FMul(FromInt(pixel_bbox[2]), scale_y),
          FMul(FromInt(pixel_bbox[3]), scale_x),
          FMul(FromInt(pixel_bbox[4]), scale_y)>>

\* helpers.py lines 64-71: PDF points to pixels.
ConvertFlippingY(pdf_bbox, dpi, pdf_page_height) ==
    LET scale == FDiv(FromInt(dpi), PointsPerInch)
    IN  <<FMul(pdf_bbox[1], scale), FMul(pdf_page_height, scale),
          FMul(pdf_bbox[3], scale), FMul(pdf_page_height, scale)>>
ConvertPdfBBoxToPixelBBox(pdf_bbox, dpi, pdf_page_height) ==
    LET scale == FDiv(FromInt(dpi), PointsPerInch)
    IN  <<FMul(pdf_bbox[1], scale), FMul(pdf_bbox[2], scale),
          FMul(pdf_bbox[3], scale), FMul(pdf_bbox[4], scale)>>

\* A bbox in pixels is converted to PDF points.
BB_ToPdf ==
    /\ UNCHANGED notBB
    /\ pc = "bb_start"
    /\ bb_pdf' = PixelBBoxToPdfBBox(bb_pixel, bb_width, bb_height, bb_dpi)
    /\ pc' = "bb_pdf"
    /\ UNCHANGED <<bb_pixel, bb_width, bb_height, bb_dpi, bb_back>>

\* The result is converted back to pixels at the same DPI.
BB_ToPixel ==
    /\ UNCHANGED notBB
    /\ pc = "bb_pdf"
    /\ bb_back' = ConvertPdfBBoxToPixelBBox(bb_pdf, bb_dpi, bb_height)
    /\ pc' = "bb_done"
    /\ UNCHANGED <<bb_pixel, bb_width, bb_height, bb_dpi, bb_pdf>>

NextBB == BB_ToPdf \/ BB_ToPixel

PixelXs == {0, 7, 300, 1000}
PixelYs == {0, 300, 333}
PixelSizes == {1, 300, 600, 901}
PageSizes == {<<595, 842>>, <<612, 792>>, <<600, 800>>}
Dpis == {150, 200, 300}

InitBB ==
    /\ pc = "bb_start"
    /\ \E x \in PixelXs, y \in PixelYs, w \in PixelSizes, h \in PixelSizes :
           bb_pixel = <<x, y, x + w, y + h>>
    /\ \E size \in PageSizes :
           bb_width = FromInt(size[1]) /\ bb_height = FromInt(size[2])
    /\ bb_dpi \in Dpis
    /\ bb_pdf = <<>>
    /\ bb_back = <<>>
    /\ RestButBB

SpecBB == InitBB /\ [][NextBB]_vars

\* |a - b| is at most b / 2^(FloatBits - 3): a few units in the last place.
Close(a, b) ==
    IF b.m = 0 THEN a.m = 0
    ELSE IF a.m = 0 \/ Abs(a.e - b.e) > 2 THEN FALSE
    ELSE LET lo == IF a.e =< b.e THEN a.e ELSE b.e
             av == a.m * Pow2(a.e - lo)
             bv == b.m * Pow2(b.e - lo)
         IN  Abs(av - bv) * Pow2(FloatBits - 3) =< bv

\* C17 as stated: the bbox converted to points and back equals the original.
C17_RoundTripExact ==
    pc = "bb_done" => \A i \in 1..4 : bb_back[i] = FromInt(bb_pixel[i])

\* C17: at each DPI of 150, 200 and 300 the bbox converted to points and
\* back is the original within floating-point tolerance, each coordinate
\* scaled on its own axis with no flip.
C17_RoundTrip ==
    pc = "bb_done" => \A i \in 1..4 : Close(bb_back[i], FromInt(bb_pixel[i]))

\* C17 witness: a bbox came back with a coordinate that is close to the
\* original but not equal to it.
C17_Witness ==
    /\ pc = "bb_done"
    /\ bb_dpi = 300
    /\ \E i \in 1..4 : bb_back[i] # FromInt(bb_pixel[i])
    /\ \A i \in 1..4 : Close(bb_back[i], FromInt(bb_pixel[i]))

----------------------------------------------------------------------------
(* extract_exclusion_zones_from_metadata *)

MaxElements == 2              \* elements of the metadata

\* Line 69: pdf.pages[page_num - 1] on a list of n pages: the position (from
\* 1) of the page read, a negative index counting from the end; 0 if the
\* index is out of range.
ListIndex(index, n) ==
    IF index >= 0 /\ index < n THEN index + 1
    ELSE IF index < 0 /\ index >= -n THEN n + index + 1
    ELSE 0

\* Lines 74-94: the bbox of an element in PDF points, <<>> if its format is
\* unknown.
PdfBBoxOf(element, page, dpi) ==
    CASE element.bbox.kind = "dict" ->
           PixelBBoxToPdfBBox(
               <<element.bbox.x, element.bbox.y,
                 element.bbox.x + element.bbox.width,
                 element.bbox.y + element.bbox.height>>,
               page.width, page.height, dpi)
      [] element.bbox.kind = "list" -> element.bbox.box
      [] OTHER -> <<>>

\* Lines 97-105: the zone appended to the list of its page number.
AddZone(zones_by_page, page_num, zone) ==
    IF page_num \in DOMAIN zones_by_page
    THEN [zones_by_page EXCEPT ![page_num] = Append(@, zone)]
    ELSE zones_by_page @@ (page_num :> <<zone>>)

\* Lines 64-105: one element of the metadata.
CC_Element ==
    /\ UNCHANGED notCC
    /\ pc = "cc_loop"
    /\ cc_i =< Len(elements)
    /\ LET element == elements[cc_i]
           page_num == element.page
           pos == ListIndex(page_num - 1, Len(cc_pages))
           pdf_bbox == PdfBBoxOf(element, cc_pages[pos], cc_dpi)
       IN  IF page_num > Len(cc_pages)
           THEN UNCHANGED <<pc, cc_zones>>
           ELSE IF pos = 0
           THEN pc' = "cc_raised" /\ UNCHANGED cc_zones     \* IndexError
           ELSE IF pdf_bbox = <<>>
           THEN UNCHANGED <<pc, cc_zones>>
           ELSE /\ cc_zones' = AddZone(cc_zones, page_num,
                                       [bbox |-> pdf_bbox, type |-> element.type])
                /\ UNCHANGED pc
    /\ cc_i' = cc_i + 1
    /\ UNCHANGED <<elements, cc_pages, cc_dpi>>

\* Line 107: the zones are returned.
CC_Return ==
    /\ UNCHANGED notCC
    /\ pc = "cc_loop"
    /\ cc_i > Len(elements)
    /\ pc' = "cc_done"
    /\ UNCHANGED <<elements, cc_pages, cc_dpi, cc_i, cc_zones>>

NextCC == CC_Element \/ CC_Return

PixelBox == [kind |-> "dict", x |-> 300, y |-> 300, width |-> 300, height |-> 600]
PointsBox ==
    [kind |-> "list",
     box |-> <<FromInt(10), FromInt(20), FromInt(110), FromInt(220)>>]
UnknownBox == [kind |-> "none"]

ElementKinds ==
    { [page |-> p, bbox |-> b, type |-> "figure"] :
        p \in -3..3, b \in {PixelBox, PointsBox} }
    \cup { [page |-> 1, bbox |-> UnknownBox, type |-> "table"] }

CcPage(w, h) == [width |-> FromInt(w), height |-> FromInt(h)]

InitCC ==
    /\ pc = "cc_loop"
    /\ elements \in UNION { [1..n -> ElementKinds] : n \in 0..MaxElements }
    /\ cc_pages \in {<<CcPage(595, 842)>>, <<CcPage(595, 842), CcPage(612, 792)>>}
    /\ cc_dpi = 300
    /\ cc_i = 1
    /\ cc_zones = <<>>
    /\ RestButCC

SpecCC == InitCC /\ [][NextCC]_vars

InPageRange(element) == element.page >= 1 /\ element.page =< Len(cc_pages)

\* The zones of a list of elements that all name a page of the document.
RECURSIVE ZonesOf(_)
ZonesOf(es) ==
    IF es = <<>> THEN <<>>
    ELSE LET element == es[Len(es)]
             before == ZonesOf(SubSeq(es, 1, Len(es) - 1))
             pdf_bbox == PdfBBoxOf(element, cc_pages[element.page], cc_dpi)
         IN  IF pdf_bbox = <<>> THEN before
             ELSE AddZone(before, element.page,
                          [bbox |-> pdf_bbox, type |-> element.type])

\* C11: an element whose page number is outside 1..page_count is skipped:
\* nothing is raised, no zone is filed under its page number, and the zones
\* are those of the other elements alone.
C11_OutOfRangeSkipped ==
    /\ pc # "cc_raised"
    /\ pc = "cc_done" => cc_zones = ZonesOf(SelectSeq(elements, InPageRange))

----------------------------------------------------------------------------
(* TextExtractor.extract_from_pdf *)

MaxXpPages == 2               \* pages of the document

\* extract_arrow_graphics, lines 153-155: fitz is imported and the document
\* opened, unless either raises.
EA_Open ==
    /\ UNCHANGED notEA
    /\ pc = "ea_open"
    /\ \/ doc_open' = TRUE /\ pc' = "ea_page"
       \/ pc' = "ea_done" /\ UNCHANGED doc_open
    /\ UNCHANGED <<items, page_height, raw_arrows, processed, ea_i, ea_arrows>>

\* Line 156: doc[page_num]; an exception goes to line 243, past the close.
EA_LoadPage ==
    /\ UNCHANGED notEA
    /\ pc = "ea_page"
    /\ pc' \in {"ea_drawings", "ea_done"}
    /\ UNCHANGED eaVars

\* Line 157: page.get_drawings(); an exception goes to line 243, past the
\* close.
EA_GetDrawings ==
    /\ UNCHANGED notEA
    /\ pc = "ea_drawings"
    /\ pc' \in {"ea_collect", "ea_done"}
    /\ UNCHANGED eaVars

\* extract_arrow_graphics from its first line.
NextEAFromOpen == EA_Open \/ EA_LoadPage \/ EA_GetDrawings \/ NextEA

\* __init__, lines 18-19: the default shrink paddings.
DefaultCaptionShrink == 0 * Pt
DefaultVisualShrink == 20 * Pt

\* NoiseFilter.filter_characters, lines 36-45.
FilterCharacters(cs, zones) ==
    SelectSeq(cs, LAMBDA c : ~IsInNoiseZone(c, zones))

\* The exclusion filter left out: every character is kept.
FilterCharsKeepingAll(cs, zones) == cs

\* _filter_chars_by_exclusion_zones, lines 210-259.
FilterCharsNoZonesNone(cs, zones) ==
    IF zones = <<>> THEN <<>>
    ELSE SelectSeq(cs, LAMBDA c : ~IsExcluded(c, zones, DefaultCaptionShrink,
                                              DefaultVisualShrink))
FilterCharsByExclusionZones(cs, zones) ==
    IF zones = <<>> THEN cs
    ELSE SelectSeq(cs, LAMBDA c : ~IsExcluded(c, zones, DefaultCaptionShrink,
                                              DefaultVisualShrink))

\* _reconstruct_plain_text, lines 303-323: what is emitted for the sorted
\* characters from position i on.
RECURSIVE PlainTextFrom(_, _)
PlainTextFrom(s, i) ==
    IF i > Len(s) THEN <<>>
    ELSE LET before ==
                 IF i = 1 THEN <<>>
                 ELSE IF Abs(s[i].top - s[i - 1].top) > NewLineGap THEN <<"\n">>
                 ELSE IF s[i].x0 - s[i - 1].x1 > 2 * Pt THEN <<" ">>
                 ELSE <<>>
         IN  before \o <<s[i].text>> \o PlainTextFrom(s, i + 1)

\* The plain text of the characters in the order given.
ReconstructUnsorted(cs) ==
    IF cs = <<>> THEN <<>> ELSE PlainTextFrom(cs, 1)

\* _reconstruct_plain_text, lines 293-329.
ReconstructPlainText(cs) ==
    IF cs = <<>> THEN <<>> ELSE PlainTextFrom(SortTopX0(cs), 1)

RECURSIVE MapSizeRound(_)
MapSizeRound(s) ==
    IF s = <<>> THEN <<>> ELSE <<Round1(Head(s).size)>> \o MapSizeRound(Tail(s))

\* normalize_latex with its default settings (latex_normalizer.py).
NormalizeLatex(t) ==
    IF t = <<>> THEN t ELSE WrapElementsFrom(NormalizeNuclidesFrom(t, 1), 1)

\* RegexNoiseFilter.filter_text, lines 180-199: the lines kept.
RECURSIVE FilterLines(_)
FilterLines(ls) ==
    IF ls = <<>> THEN <<>>
    ELSE LET line == Head(ls)
             kept == IF Strip(line) = <<>> THEN << <<>> >>
                     ELSE IF ShouldFilterLine(line) THEN <<>>
                     ELSE IF CleanLine(line) = <<>> THEN <<>>
                     ELSE <<CleanLine(line)>>
         IN  kept \o FilterLines(Tail(ls))

\* RegexNoiseFilter.filter_text, lines 168-213.
FilterText(t) == Strip(Join(Collapse(FilterLines(SplitLines(t)), FALSE)))

\* Lines 156-159: the formatted text when the extractor module cannot be
\* loaded or reconstruct_formulas raises.
FallbackNoText(cs) == <<>>
FallbackText(cs) == ReconstructPlainText(cs)

\* Lines 70-74, 82-86, 94-98: the entry of a page left with no characters.
EmptyEntry(n) == [page |-> n, text |-> <<>>, formatted_text |-> <<>>]

\* The locals of the page loop outside a page.
XpLocalsInit ==
    /\ xp_chars = <<>>
    /\ xp_filtered_chars = <<>>
    /\ xp_formatted_text = <<>>

\* The locals of a call are gone when it has returned, and fresh when it is
\* made.
XpLocalsReset ==
    /\ xp_chars' = <<>>
    /\ xp_filtered_chars' = <<>>
    /\ xp_formatted_text' = <<>>

RFLocalsReset ==
    /\ sorted_by_y' = <<>>
    /\ k' = 1
    /\ lines' = <<>>
    /\ current_line' = <<>>
    /\ line_idx' = 0
    /\ line_chars' = <<>>
    /\ line_baseline_top' = 0
    /\ inserted_arrows' = {}
    /\ char_idx' = 0
    /\ prev_x1' = <<>>
    /\ current_format' = "normal"
    /\ is_subscript' = FALSE
    /\ is_superscript' = FALSE
    /\ result' = <<>>

RFReset ==
    /\ chars' = <<>> /\ baseline_size' = 0 /\ baseline_top' = 0
    /\ arrows' = <<>>
    /\ RFLocalsReset

EAReset ==
    /\ items' = <<>> /\ page_height' = 0 /\ raw_arrows' = <<>>
    /\ processed' = {} /\ ea_i' = 0 /\ ea_arrows' = <<>>
    /\ doc_open' = FALSE

\* Lines 60-144: a page up to the call of extract_arrow_graphics.  The page
\* is skipped, or left with no characters, or filtered; then the extractor
\* module is loaded, which may raise.
XP_Page ==
    /\ UNCHANGED notXP
    /\ xp_pdf_open
    /\ pc = "xp_page"
    /\ xp_page_num =< Len(xp_pages)
    /\ LET n == xp_page_num
           after_noise == IF xp_noise_filter # <<>>
                          THEN FilterCharacters(xp_pages[n].chars, xp_noise_filter[1])
                          ELSE xp_pages[n].chars
           exclusions_for_page == IF n \in DOMAIN xp_exclusion_zones
                                  THEN xp_exclusion_zones[n] ELSE <<>>
           filtered == FilterCharsByExclusionZones(after_noise, exclusions_for_page)
       IN  IF xp_skip_first_page /\ n = 1
           THEN /\ xp_page_num' = n + 1
                /\ UNCHANGED <<pc, xp_results, xp_chars, xp_filtered_chars,
                               xp_formatted_text, xp_raised, rfVars, eaVars>>
           ELSE IF xp_pages[n].chars = <<>> \/ after_noise = <<>> \/ filtered = <<>>
           THEN /\ xp_results' = Append(xp_results, EmptyEntry(n))
                /\ xp_page_num' = n + 1
                /\ UNCHANGED <<pc, xp_chars, xp_filtered_chars,
                               xp_formatted_text, xp_raised, rfVars, eaVars>>
           ELSE /\ xp_chars' = after_noise
                /\ xp_filtered_chars' = filtered
                /\ \/ /\ pc' = "ea_open"
                      /\ items' = xp_pages[n].drawings
                      /\ page_height' = xp_pages[n].height
                      /\ raw_arrows' = <<>> /\ processed' = {} /\ ea_i' = 1
                      /\ ea_arrows' = <<>> /\ doc_open' = FALSE
                      /\ UNCHANGED <<xp_formatted_text, xp_raised>>
                   \/ /\ pc' = "xp_normalize"
                      /\ xp_formatted_text' = FallbackText(filtered)
                      /\ xp_raised' = xp_raised \cup {<<n, "arrows">>}
                      /\ UNCHANGED eaVars
                /\ UNCHANGED <<xp_page_num, xp_results, rfVars>>
    /\ UNCHANGED <<xp_pages, xp_skip_first_page, xp_noise_filter,
                   xp_exclusion_zones, xp_regex_filter, xp_pdf_open,
                   xp_docs_open>>

\* Lines 101-115 and 144-152: extract_arrow_graphics has returned and
\* reconstruct_formulas is called with the page baseline, unless it raises.
XP_Reconstruct ==
    /\ UNCHANGED notXP
    /\ xp_pdf_open
    /\ pc = "ea_done"
    /\ xp_docs_open' = xp_docs_open + (IF doc_open THEN 1 ELSE 0)
    /\ EAReset
    /\ \/ /\ pc' = "rf_start"
          /\ chars' = xp_filtered_chars
          /\ baseline_size' = MostCommon(MapSizeRound(xp_filtered_chars))
          /\ baseline_top' = MostCommon(MapTopRound(xp_filtered_chars))
          /\ arrows' = ea_arrows
          /\ RFLocalsReset
          /\ UNCHANGED <<xp_formatted_text, xp_raised>>
       \/ /\ pc' = "xp_normalize"
          /\ xp_formatted_text' = FallbackText(xp_filtered_chars)
          /\ xp_raised' = xp_raised \cup {<<xp_page_num, "formulas">>}
          /\ UNCHANGED rfVars
    /\ UNCHANGED <<xp_pages, xp_skip_first_page, xp_noise_filter,
                   xp_exclusion_zones, xp_regex_filter, xp_pdf_open,
                   xp_page_num, xp_results, xp_chars, xp_filtered_chars>>

\* Line 147: reconstruct_formulas has returned the formatted text.
XP_Reconstructed ==
    /\ UNCHANGED notXP
    /\ xp_pdf_open
    /\ pc = "rf_done"
    /\ xp_formatted_text' = result
    /\ RFReset
    /\ pc' = "xp_normalize"
    /\ UNCHANGED <<xp_pages, xp_skip_first_page, xp_noise_filter,
                   xp_exclusion_zones, xp_regex_filter, xp_pdf_open,
                   xp_docs_open, xp_page_num, xp_results, xp_chars,
                   xp_filtered_chars, xp_raised, eaVars>>

\* Lines 182-191: the entry of a page with text.
PageEntry(n, plain_text, formatted, all_chars, filtered, zones) ==
    [page |-> n,
     text |-> plain_text,
     formatted_text |-> formatted,
     baseline_size |-> MostCommon(MapSizeRound(filtered)),
     baseline_top |-> MostCommon(MapTopRound(filtered)),
     filtered_char_count |-> Len(filtered),
     total_char_count |-> Len(all_chars),
     exclusion_zones |-> Len(zones)]

\* Lines 161-191: the plain text, the normalization (which may raise), the
\* regex filter and the entry of the page.
XP_Finish ==
    /\ UNCHANGED notXP
    /\ xp_pdf_open
    /\ pc = "xp_normalize"
    /\ \E fails \in BOOLEAN :
         LET n == xp_page_num
             plain_text == ReconstructPlainText(xp_filtered_chars)
             normalized == IF fails THEN xp_formatted_text
                           ELSE NormalizeLatex(xp_formatted_text)
             exclusions_for_page == IF n \in DOMAIN xp_exclusion_zones
                                    THEN xp_exclusion_zones[n] ELSE <<>>
         IN  /\ xp_results' =
                   Append(xp_results,
                          PageEntry(n,
                                    IF xp_regex_filter THEN FilterText(plain_text)
                                    ELSE plain_text,
                                    IF xp_regex_filter THEN FilterText(normalized)
                                    ELSE normalized,
                                    xp_chars, xp_filtered_chars,
                                    exclusions_for_page))
             /\ xp_raised' = IF fails THEN xp_raised \cup {<<n, "normalize">>}
                             ELSE xp_raised
    /\ xp_page_num' = xp_page_num + 1
    /\ XpLocalsReset
    /\ pc' = "xp_page"
    /\ UNCHANGED <<xp_pages, xp_skip_first_page, xp_noise_filter,
                   xp_exclusion_zones, xp_regex_filter, xp_pdf_open,
                   xp_docs_open, rfVars, eaVars>>

\* Lines 59 and 193: the with block is left, which closes the document, and
\* the results are returned.
XP_Return ==
    /\ UNCHANGED notXP
    /\ xp_pdf_open
    /\ pc = "xp_page"
    /\ xp_page_num > Len(xp_pages)
    /\ xp_pdf_open' = FALSE
    /\ pc' = "xp_done"
    /\ UNCHANGED <<xp_pages, xp_skip_first_page, xp_noise_filter,
                   xp_exclusion_zones, xp_regex_filter, xp_docs_open,
                   xp_page_num, xp_results, xp_chars, xp_filtered_chars,
                   xp_formatted_text, xp_raised, rfVars, eaVars>>

NextXP ==
    \/ XP_Page
    \/ XP_Reconstruct
    \/ XP_Reconstructed
    \/ XP_Finish
    \/ XP_Return
    \/ NextEAFromOpen
    \/ NextRF

\* A character of 6 pt advance at x (pt), of a top and size in model units.
XpChar(t, x, top, size) ==
    [text |-> t, x0 |-> x * Pt, x1 |-> x * Pt + CharWidth, top |-> top,
     bottom |-> top + size, size |-> size]

XpPage(cs, drawings) == [chars |-> cs, drawings |-> drawings, height |-> 842 * Pt]

\* A page with no characters.
BlankPage == XpPage(<<>>, <<>>)

\* H2O on the line at 100 pt.
WaterPage ==
    XpPage(<<XpChar("H", 100, 2000, 200), XpChar("2", 106, 2060, 140),
             XpChar("O", 112, 2000, 200)>>, <<>>)

\* A page number at 40 pt and nothing else.
PageNumberPage ==
    XpPage(<<XpChar("1", 300, 800, 200), XpChar("2", 306, 800, 200)>>, <<>>)

\* A page number at 40 pt, a letter on the line at 100 pt and a label inside
\* the figure at (300, 300)..(400, 400) pt.
FigurePage ==
    XpPage(<<XpChar("7", 300, 800, 200), XpChar("A", 100, 2000, 200),
             XpChar("b", 340, 7000, 200)>>, <<>>)

\* A label inside the figure and nothing else.
LabelPage == XpPage(<<XpChar("b", 340, 7000, 200)>>, <<>>)

\* CO2, a space and H2O on the line at 100 pt, with two segments drawn at the
\* space, one each way.
ReactionChars ==
    <<XpChar("C", 100, 2000, 200), XpChar("O", 106, 2000, 200),
      XpChar("2", 112, 2060, 140), XpChar(" ", 118, 2000, 200),
      XpChar("H", 124, 2000, 200), XpChar("2", 130, 2060, 140),
      XpChar("O", 136, 2000, 200)>>

ReactionPage ==
    XpPage(ReactionChars, <<Line(113, 102, 125, 102), Line(125, 103, 113, 103)>>)

XpPageKinds ==
    {BlankPage, WaterPage, PageNumberPage, FigurePage, LabelPage, ReactionPage}

\* The header zone of a noise filter, a filter with no zones, and no filter.
XpNoiseFilters ==
    { <<>>, <<NoZones>>, <<[NoZones EXCEPT !.header_zones = <<YZone(0, 50)>>]>> }

FigureZone == Zone(<<6000, 6000, 8000, 8000>>, "figure", "caption")

\* No exclusion zones, or the figure on every page.
XpExclusionZones ==
    { <<>>, [n \in 1..MaxXpPages |-> <<FigureZone>>] }

InitXP ==
    /\ pc = "xp_page"
    /\ xp_pages \in UNION { [1..n -> XpPageKinds] : n \in 1..MaxXpPages }
    /\ xp_skip_first_page \in BOOLEAN
    /\ xp_noise_filter \in XpNoiseFilters
    /\ xp_exclusion_zones \in XpExclusionZones
    /\ xp_regex_filter \in BOOLEAN
    /\ xp_pdf_open = TRUE
    /\ xp_docs_open = 0
    /\ xp_page_num = 1
    /\ xp_results = <<>>
    /\ XpLocalsInit
    /\ xp_raised = {}
    /\ RestButXP

SpecXP == InitXP /\ [][NextXP]_vars

\* reconstruct_formulas called on its own with no characters, whatever the
\* arrows.
InitNoChars == InitRFA /\ chars = <<>>

\* extract_from_pdf on a document, or reconstruct_formulas on no characters.
SpecNoInput == (InitXP \/ InitNoChars) /\ [][NextXP]_vars

ArrowTokens == { <<"-", ">">>, <<"<", "-">>, <<"<", "=", ">">> }

HasArrowToken(t) == \E a \in ArrowTokens : Occurrences(t, a) > 0

\* Is the entry that of a page left with no characters: no text and no
\* counts?
IsEmptyEntry(e) == e = [page |-> e.page, text |-> <<>>, formatted_text |-> <<>>]

\* The exclusion zones of page n.
ZonesOfPage(n) ==
    IF n \in DOMAIN xp_exclusion_zones THEN xp_exclusion_zones[n] ELSE <<>>

\* C12: missing input is never an error.  reconstruct_formulas and the
\* plain-text reconstruction return the empty text for no characters, and a
\* page with no characters gets an entry with empty text and formatted_text;
\* with no exclusion zones for the page the exclusion filter returns every
\* character; a noise filter with empty zone lists returns every character;
\* with no arrows no arrow token is emitted.
C12_NoInputNoError ==
    /\ (pc = "rf_done" /\ chars = <<>>) => result = <<>>
    /\ ReconstructPlainText(<<>>) = <<>>
    /\ \A i \in 1..Len(xp_results) :
           LET e == xp_results[i]
               all_chars == xp_pages[e.page].chars
           IN  /\ all_chars = <<>> => IsEmptyEntry(e)
               /\ (all_chars # <<>> /\ ZonesOfPage(e.page) = <<>>
                   /\ xp_noise_filter \in {<<>>, <<NoZones>>}) =>
                      /\ ~IsEmptyEntry(e)
                      /\ e.filtered_char_count = Len(all_chars)
               /\ (~IsEmptyEntry(e) /\ ZonesOfPage(e.page) = <<>>) =>
                      e.filtered_char_count = e.total_char_count
               /\ (~IsEmptyEntry(e) /\ xp_noise_filter = <<NoZones>>) =>
                      e.total_char_count = Len(all_chars)
    /\ (xp_pdf_open /\ pc = "xp_page") =>
           \A n \in (IF xp_skip_first_page THEN 2 ELSE 1)..(xp_page_num - 1) :
               \E i \in 1..Len(xp_results) : xp_results[i].page = n
    /\ (xp_chars # <<>> /\ ZonesOfPage(xp_page_num) = <<>>) =>
           xp_filtered_chars = xp_chars
    /\ (xp_chars # <<>> /\ xp_noise_filter = <<NoZones>>) =>
           xp_chars = xp_pages[xp_page_num].chars
    /\ (pc = "rf_done" /\ arrows = <<>>) => ~HasArrowToken(result)

\* C12 witness: a document has been read whose first page has no characters
\* and got its empty entry, and whose second page went unfiltered through a
\* noise filter with no zones and no exclusion zones.
C12_Witness ==
    /\ pc = "xp_done"
    /\ xp_noise_filter = <<NoZones>> /\ xp_exclusion_zones = <<>>
    /\ Len(xp_results) = 2
    /\ xp_pages[1].chars = <<>> /\ IsEmptyEntry(xp_results[1])
    /\ ~IsEmptyEntry(xp_results[2])
    /\ xp_results[2].filtered_char_count = Len(xp_pages[2].chars)

\* The characters of page n that the noise filter and the exclusion zones
\* leave.
FilteredCharsOf(n) ==
    FilterCharsByExclusionZones(
        IF xp_noise_filter # <<>>
        THEN FilterCharacters(xp_pages[n].chars, xp_noise_filter[1])
        ELSE xp_pages[n].chars,
        ZonesOfPage(n))

\* Did the extractor module or reconstruct_formulas raise on page n?
FellBack(n) == <<n, "arrows">> \in xp_raised \/ <<n, "formulas">> \in xp_raised

\* The regex filter, when one is configured.
RegexFiltered(t) == IF xp_regex_filter THEN FilterText(t) ELSE t

\* The pages that are not skipped, in order.
PagesRead(upto) ==
    [i \in 1..(IF xp_skip_first_page THEN upto - 1 ELSE upto) |->
        IF xp_skip_first_page THEN i + 1 ELSE i]

RECURSIVE SumOf(_, _)
SumOf(entries, field) ==
    IF entries = <<>> THEN 0
    ELSE (IF field \in DOMAIN Head(entries) THEN Head(entries)[field] ELSE 0)
         + SumOf(Tail(entries), field)

TotalCharsBefore(entries) == SumOf(entries, "total_char_count")
TotalCharsAfter(entries) == SumOf(entries, "filtered_char_count")

\* The characters of the pages read, before any filtering and after all of
\* it.
RECURSIVE CharsOnPages(_)
CharsOnPages(ns) ==
    IF ns = <<>> THEN 0
    ELSE Len(xp_pages[Head(ns)].chars) + CharsOnPages(Tail(ns))

RECURSIVE CharsLeftOnPages(_)
CharsLeftOnPages(ns) ==
    IF ns = <<>> THEN 0
    ELSE Len(FilteredCharsOf(Head(ns))) + CharsLeftOnPages(Tail(ns))

\* C14: an entry's total_char_count is the number of characters the page had
\* before any filtering, by noise zones and by exclusion zones, its
\* filtered_char_count the number left after all filtering, which is never
\* the larger; and the document totals count every page read, the pages whose
\* characters were all removed included.
C14_AccurateCounts ==
    /\ \A i \in 1..Len(xp_results) :
           LET e == xp_results[i]
           IN  ~IsEmptyEntry(e) =>
                   /\ e.total_char_count = Len(xp_pages[e.page].chars)
                   /\ e.filtered_char_count = Len(FilteredCharsOf(e.page))
                   /\ e.filtered_char_count =< e.total_char_count
    /\ pc = "xp_done" =>
           /\ TotalCharsBefore(xp_results) = CharsOnPages(PagesRead(Len(xp_pages)))
           /\ TotalCharsAfter(xp_results) = CharsLeftOnPages(PagesRead(Len(xp_pages)))

\* The arrow extract_arrow_graphics returns for the two segments of the
\* reaction page: one equilibrium arrow over 113..125 pt at y = 102.5 pt.
ReactionArrow ==
    [x_start |-> 113 * Pt, x_end |-> 125 * Pt, y |-> 2050,
     direction |-> <<"<", "=", ">">>, length |-> 12 * Pt]

ReactionWithEquilibrium ==
    <<"C", "O", "_", "{", "2", "}", " ", "<", "=", ">", " ",
      "H", "_", "{", "2", "}", "O">>

ReactionWithArrow ==
    <<"C", "O", "_", "{", "2", "}", " ", "-", ">", " ",
      "H", "_", "{", "2", "}", "O">>

\* C15 as stated: the reaction page, its two segments fused, reads
\* CO_{2} -> H_{2}O.
C15_ReactionReadsArrow ==
    /\ (pc = "rf_done" /\ chars = ReactionChars /\ arrows # <<>>) =>
           result = ReactionWithArrow
    /\ \A i \in 1..Len(xp_results) :
           (xp_pages[xp_results[i].page] = ReactionPage
            /\ HasArrowToken(xp_results[i].formatted_text)) =>
               xp_results[i].formatted_text = ReactionWithArrow

\* C15 amended: the two segments at the space are fused into one equilibrium
\* arrow, and the page of CO, subscript 2, a space, H, subscript 2, O reads
\* CO_{2} <=> H_{2}O from the characters to the entry of the page: the open
\* subscript group is closed before the arrow token and exactly one space
\* stands on each side of it.
C15_ReactionReadsEquilibrium ==
    /\ (pc = "ea_done" /\ items = ReactionPage.drawings /\ Len(raw_arrows) = 2) =>
           ea_arrows = <<ReactionArrow>>
    /\ (pc = "rf_done" /\ chars = ReactionChars /\ arrows # <<>>) =>
           /\ arrows = <<ReactionArrow>>
           /\ result = ReactionWithEquilibrium
    /\ \A i \in 1..Len(xp_results) :
           (xp_pages[xp_results[i].page] = ReactionPage
            /\ HasArrowToken(xp_results[i].formatted_text)) =>
               xp_results[i].formatted_text = ReactionWithEquilibrium

\* C15 witness: the reaction page has been read with its arrow and its entry
\* reads CO_{2} <=> H_{2}O.
C15_Witness ==
    /\ pc = "xp_done"
    /\ \E i \in 1..Len(xp_results) :
           /\ xp_pages[xp_results[i].page] = ReactionPage
           /\ xp_results[i].formatted_text = ReactionWithEquilibrium

\* The intersection of two rectangles has positive area.
PositiveArea(a, b) ==
    /\ Max(a[1], b[1]) < Min(a[3], b[3])
    /\ Max(a[2], b[2]) < Min(a[4], b[4])

WellFormed(b) == b[1] =< b[3] /\ b[2] =< b[4]

\* The zone's bbox as the filter tests it.
TestedBBox(zone) ==
    AdjustedBBox(zone, caption_figure_padding_shrink, visual_figure_padding_shrink)

\* C16: the overlap test of the exclusion filter is strict: rectangles that
\* share only an edge or only a corner do not overlap, rectangles whose
\* intersection has positive area do, and overlaps(a, b) = overlaps(b, a);
\* so for every character tested so far the test agrees with positive area,
\* and the filter drops exactly the characters whose box has an intersection
\* of positive area with a zone.
C16_StrictOverlap ==
    /\ \A i \in 1..(ex_idx - 1) : \A j \in 1..Len(exclusion_zones) :
           LET a == CharBBox(ex_chars[i])
               b == TestedBBox(exclusion_zones[j])
           IN  WellFormed(b) =>
                   /\ BBoxOverlap(a, b) <=> PositiveArea(a, b)
                   /\ BBoxOverlap(a, b) <=> BBoxOverlap(b, a)
    /\ (pc = "ex_done"
        /\ \A j \in 1..Len(exclusion_zones) : WellFormed(TestedBBox(exclusion_zones[j]))) =>
           \A i \in 1..Len(ex_chars) :
               ex_chars[i] \in Range(ex_filtered) <=>
                   \A j \in 1..Len(exclusion_zones) :
                       ~PositiveArea(CharBBox(ex_chars[i]),
                                     TestedBBox(exclusion_zones[j]))

MaxTokens == 5                \* tokens on a line

\* Tokens of a line: two of the mirrored warning, one of them in lower case,
\* and a word that is none.
MwTokens == { <<"O", "D">>, <<"t", "o", "n">>, <<"x", "y">> }

RECURSIVE JoinWords(_)
JoinWords(ws) ==
    IF ws = <<>> THEN <<>>
    ELSE IF Len(ws) = 1 THEN ws[1]
    ELSE ws[1] \o <<" ">> \o JoinWords(Tail(ws))

\* filter_text on one line of up to MaxTokens tokens, with the default flags.
InitMW ==
    /\ pc = "rx_start"
    /\ rx_text \in { JoinWords(ws) :
                       ws \in UNION { [1..n -> MwTokens] : n \in 1..MaxTokens } }
    /\ filter_page_numbers = TRUE /\ filter_copyright = TRUE
    /\ filter_mirrored = TRUE /\ filter_turn_over = TRUE
    /\ filter_cid_garbage = TRUE /\ filter_dots_punct = TRUE
    /\ filter_page_metadata = TRUE
    /\ raw_lines = <<>> /\ rx_i = 1 /\ cleaned_lines = <<>>
    /\ rx_out = <<>> /\ rx_calls = 0 /\ rx_first = <<>>
    /\ RestButRX

SpecMW == InitMW /\ [][NextRX]_vars

\* The tokens of the line that are of the mirrored warning.
MirroredMembers(line) ==
    Cardinality({q \in 1..Len(Tokens(line)) :
                    UpperOf(Tokens(line)[q]) \in MIRRORED_WARNING_TOKENS})

\* C18: a line is flagged as a mirrored warning exactly when at least two of
\* its tokens are of the mirrored vocabulary and they are at least half of
\* its tokens (2 * members >= tokens); a line of 5 tokens of which only 2 are
\* mirrored is not flagged and is kept by filter_text.
C18_MirroredMajority ==
    /\ \A i \in 1..(rx_i - 1) :
           i =< Len(raw_lines) =>
               (LooksLikeMirroredWarning(raw_lines[i]) <=>
                   /\ MirroredMembers(raw_lines[i]) >= 2
                   /\ 2 * MirroredMembers(raw_lines[i]) >= Len(Tokens(raw_lines[i])))
    /\ (pc = "rx_done" /\ rx_calls = 1 /\ Len(Tokens(rx_text)) = 5
        /\ MirroredMembers(rx_text) = 2) => rx_out = rx_text


(***************************************************************************)
(* RegexNoiseFilter.filter_text: blank lines of the output                 *)
(***************************************************************************)

MaxBlLines == 5               \* lines of a text with blank lines

\* Lines of a text: a line of text, an empty line, a line of white space and
\* a page number, which should_filter_line removes.
BlLines == { <<"a", "b">>, <<>>, <<" ">>, <<"1", "2">> }

\* filter_text on up to MaxBlLines such lines, with the default flags.
InitBL ==
    /\ pc = "rx_start"
    /\ rx_text \in { Join(ls) :
                       ls \in UNION { [1..n -> BlLines] : n \in 0..MaxBlLines } }
    /\ filter_page_numbers = TRUE /\ filter_copyright = TRUE
    /\ filter_mirrored = TRUE /\ filter_turn_over = TRUE
    /\ filter_cid_garbage = TRUE /\ filter_dots_punct = TRUE
    /\ filter_page_metadata = TRUE
    /\ raw_lines = <<>> /\ rx_i = 1 /\ cleaned_lines = <<>>
    /\ rx_out = <<>> /\ rx_calls = 0 /\ rx_first = <<>>
    /\ RestButRX

SpecBL == InitBL /\ [][NextRX]_vars

\* A line of nothing but white space.
IsBlankLine(l) == \A q \in 1..Len(l) : l[q] \in Whitespace

\* The text read line by line at its newlines, an empty last line included.
RECURSIVE LinesAtNewlines(_)
LinesAtNewlines(t) ==
    IF \A q \in 1..Len(t) : t[q] # "\n" THEN <<t>>
    ELSE LET e == CHOOSE q \in 1..Len(t) :
                      /\ t[q] = "\n"
                      /\ \A r \in 1..(q - 1) : t[r] # "\n"
         IN  <<SubSeq(t, 1, e - 1)>> \o LinesAtNewlines(SubSeq(t, e + 1, Len(t)))

\* C19: the text filter_text returns has no two consecutive blank lines and
\* neither starts nor ends with a blank line, also where the blank lines
\* became neighbours only because the noise line between them was removed.
C19_NoBlankRuns ==
    pc = "rx_done" =>
        LET out == LinesAtNewlines(rx_out)
        IN  /\ \A i \in 1..(Len(out) - 1) :
                   ~(IsBlankLine(out[i]) /\ IsBlankLine(out[i + 1]))
            /\ rx_out # <<>> =>
                   /\ ~IsBlankLine(out[1])
                   /\ ~IsBlankLine(out[Len(out)])

\* Two blank lines around a page number come out as one blank line.
C19_Witness ==
    /\ pc = "rx_done"
    /\ rx_calls = 1
    /\ rx_text = Join(<< <<"a", "b">>, <<>>, <<"1", "2">>, <<" ">>, <<"a", "b">> >>)
    /\ rx_out = <<"a", "b", "\n", "\n", "a", "b">>


\* C20: every document opened during a pass is closed when the operation
\* that opened it returns, on the normal path and on every exception path:
\* extract_arrow_graphics returns with its document closed, also when the
\* page lookup or get_drawings raised, and extract_from_pdf returns with the
\* PDF closed and no document of its pages left open.
C20_HandlesClosed ==
    /\ pc = "ea_done" => ~doc_open
    /\ pc = "xp_done" => (~xp_pdf_open /\ xp_docs_open = 0)


----------------------------------------------------------------------------
(* extract_arrow_graphics: which segments are fused *)

\* May the raw arrows a and b be fused: they point opposite ways, their y
\* differ by less than 5 pt and their midpoints by less than 10 pt (twice a
\* midpoint is x_start + x_end).
Qualifies(a, b) ==
    /\ a.direction # b.direction
    /\ Abs(a.y - b.y) < 5 * Pt
    /\ Abs((a.x_start + a.x_end) - (b.x_start + b.x_end)) < 2 * 10 * Pt

\* The unconsumed raw arrows that qualify as partner of raw arrow i.
Qualifying(i) ==
    {j \in 1..Len(raw_arrows) :
        j # i /\ j \notin processed /\ Qualifies(raw_arrows[i], raw_arrows[j])}

\* The token of a segment on its own.
SingleDirection(a) == IF a.direction = "right" THEN <<"-", ">">> ELSE <<"<", "-">>

\* C21: two segments are fused only when they point opposite ways, their y
\* differ by less than 5 and their midpoints by less than 10; a segment
\* with no such unconsumed partner gives its own single-direction arrow; of
\* several qualifying partners the first in enumeration order is taken and
\* the others stay unconsumed.  Two segments alone on a page that do not
\* qualify give two single-direction arrows.
C21_GreedyPairing ==
    /\ []((pc = "ea_done" /\ Len(raw_arrows) = 2
           /\ ~Qualifies(raw_arrows[1], raw_arrows[2])) =>
             /\ Len(ea_arrows) = 2
             /\ \A i \in 1..2 :
                    /\ ea_arrows[i].direction = SingleDirection(raw_arrows[i])
                    /\ ea_arrows[i].x_start = raw_arrows[i].x_start
                    /\ ea_arrows[i].x_end = raw_arrows[i].x_end)
    /\ [][(pc = "ea_pair" /\ ea_i =< Len(raw_arrows) /\ ea_i \notin processed) =>
            LET new == ea_arrows'[Len(ea_arrows')]
            IN  /\ ea_arrows' = Append(ea_arrows, new)
                /\ IF Qualifying(ea_i) = {}
                   THEN /\ new.direction = SingleDirection(raw_arrows[ea_i])
                        /\ processed' = processed \cup {ea_i}
                   ELSE /\ IsFused(new)
                        /\ \E j \in Qualifying(ea_i) :
                              /\ \A j2 \in Qualifying(ea_i) : j =< j2
                              /\ processed' = processed \cup {ea_i, j}
                              /\ new.x_start = Min(raw_arrows[ea_i].x_start,
                                                   raw_arrows[j].x_start)
                              /\ new.x_end = Max(raw_arrows[ea_i].x_end,
                                                 raw_arrows[j].x_end)]_vars

\* C21 witness: a leftward segment with two qualifying rightward segments
\* was fused with the first of them, and the second, the nearer one, gave
\* its own arrow.
C21_Witness ==
    /\ pc = "ea_done"
    /\ page_height = 200 * Pt
    /\ items = <<Line(115, 50, 100, 50), Line(104, 52, 119, 52),
                 Line(100, 50, 115, 50)>>
    /\ Len(ea_arrows) = 2
    /\ IsFused(ea_arrows[1])
    /\ ea_arrows[1].x_start = 100 * Pt /\ ea_arrows[1].x_end = 119 * Pt
    /\ ea_arrows[2].direction = <<"-", ">">>


----------------------------------------------------------------------------
(* reconstruct_formulas: characters set apart by gaps *)

MaxGapChars == 3              \* characters on a page with gaps

\* A normal letter, a space, a subscript and a superscript on the line at
\* 100 pt.
GapKinds ==
    { Kind("A", 2000, 200), Kind(" ", 2000, 200),
      Kind("2", 2060, 140), Kind("+", 1950, 140) }

\* The distance from the previous character's x1: none, exactly 25% of the
\* baseline size 10, just above it, and 20 pt.
Gaps == {0, 50, 51, 400}

RECURSIVE SumGaps(_, _)
SumGaps(f, n) == IF n = 0 THEN 0 ELSE SumGaps(f, n - 1) + f[n][2]

\* The characters of kinds f[i][1], each f[i][2] after the one before it.
GapChars(f) ==
    [i \in DOMAIN f |->
        [text |-> f[i][1].text, top |-> f[i][1].top, size |-> f[i][1].size,
         x0 |-> XOrigin + (i - 1) * CharWidth + SumGaps(f, i),
         x1 |-> XOrigin + i * CharWidth + SumGaps(f, i)]]

InitRFG ==
    /\ pc = "rf_start"
    /\ chars \in UNION { {GapChars(f) : f \in [1..n -> GapKinds \X Gaps]} :
                           n \in 0..MaxGapChars }
    /\ baseline_size = 200
    /\ baseline_top = 2000
    /\ arrows = <<>>
    /\ RFLocalsInit
    /\ RestButRF

\* reconstruct_formulas on the pages with gaps and on the pages with arrows.
SpecRFG == (InitRFG \/ InitRFA) /\ [][NextRF]_vars


\* The groups open after the first n characters of the text s.
RECURSIVE Depth(_, _)
Depth(s, n) ==
    IF n = 0 THEN 0
    ELSE Depth(s, n - 1)
         + (IF s[n] = "{" THEN 1 ELSE IF s[n] = "}" THEN 0 - 1 ELSE 0)

\* What a step appended to the text.
Emitted == SubSeq(result', Len(result) + 1, Len(result'))

\* C22: the group markers of the text reconstruct_formulas builds are
\* balanced and never nested: at every point at most one group is open, each
\* group is opened by '_{' or '^{', no group is open at a line break or at
\* the end of a line; a change of mode closes the open group before anything
\* else is emitted, and a character of the kind of the open group is added
\* to that group.
C22_BalancedGroups ==
    /\ [](/\ \A n \in 1..Len(result) :
                /\ Depth(result, n) \in {0, 1}
                /\ result[n] = "{" => (n > 1 /\ result[n - 1] \in {"_", "^"})
                /\ result[n] = "\n" => Depth(result, n) = 0
          /\ pc \in {"rf_line", "rf_done"} => Depth(result, Len(result)) = 0
          /\ pc = "rf_chars" =>
                Depth(result, Len(result)) =
                    IF current_format = "normal" THEN 0 ELSE 1)
    /\ [][(pc = "rf_chars" /\ char_idx =< Len(line_chars)) =>
            LET c == line_chars[char_idx]
            IN  /\ result' = result \o Emitted
                /\ (current_format # "normal" /\ current_format' # current_format) =>
                       Emitted[1] = "}"
                /\ (~IsSpaceText(c.text) /\ current_format = "sub"
                    /\ is_subscript') =>
                       (Emitted = <<c.text>> /\ current_format' = "sub")
                /\ (~IsSpaceText(c.text) /\ current_format = "super"
                    /\ is_superscript') =>
                       (Emitted = <<c.text>> /\ current_format' = "super")]_vars

\* C22 witness: a subscript directly followed by a superscript; the
\* subscript group was closed before the superscript group was opened.
C22_Witness ==
    /\ pc = "rf_done"
    /\ result = <<"A", "_", "{", "2", "}", "^", "{", "+", "}">>


\* Is the character of the line neither a subscript nor a superscript: not
\* below 80% of the baseline size, or within 0.5 pt of the line's baseline?
ClassifiedNormal(c) ==
    ~(/\ Below80(c.size, baseline_size)
      /\ Abs(c.top - line_baseline_top) > Pt \div 2)

\* Does the character at position i of the line stand more than 25% of the
\* baseline size after the x1 of the character before it?
WideGapBefore(i) ==
    i > 1 /\ 4 * (line_chars[i].x0 - line_chars[i - 1].x1) > baseline_size

\* C23: a word space for a horizontal gap is emitted only before a character
\* classified normal and only when the gap from the previous character's x1
\* to its x0 exceeds 25% of the baseline size, and then it is; before a
\* subscript or superscript no space is emitted, however large the gap.
C23_GapSpace ==
    [][(pc = "rf_chars" /\ char_idx =< Len(line_chars)) =>
          LET c == line_chars[char_idx]
          IN  IF ClassifiedNormal(c) /\ WideGapBefore(char_idx)
              THEN /\ Len(Emitted) >= 1
                   /\ Emitted[IF current_format # "normal" THEN 2 ELSE 1] = " "
                   /\ ~IsSpaceText(c.text) =>
                          Emitted = (IF current_format # "normal"
                                     THEN <<"}">> ELSE <<>>) \o <<" ", c.text>>
              ELSE ~IsSpaceText(c.text) => Occurrences(Emitted, <<" ">>) = 0]_vars

\* C23 witness: a subscript 20 pt after its base and a letter 2.55 pt after
\* the subscript; only the letter got a space before it.
C23_Witness ==
    /\ pc = "rf_done"
    /\ chars = GapChars(<< <<Kind("A", 2000, 200), 0>>,
                           <<Kind("2", 2060, 140), 400>>,
                           <<Kind("A", 2000, 200), 51>> >>)
    /\ result = <<"A", "_", "{", "2", "}", " ", "A">>


\* C24: a space character that matches no arrow and is directly followed on
\* its line by a subscript or superscript is swallowed: the step over it
\* emits no space, so that no space stands between the character before it
\* and the group that follows.
C24_SpaceSwallowed ==
    [][(/\ pc = "rf_chars" /\ char_idx < Len(line_chars)
        /\ IsSpaceText(line_chars[char_idx].text)
        /\ \A i \in 1..Len(arrows) : ~ArrowMatches(line_chars[char_idx], arrows[i])
        /\ ~ClassifiedNormal(line_chars[char_idx + 1])) =>
          Occurrences(Emitted, <<" ">>) = 0]_vars


\* The characters of the line being processed whose size is at least 80% of
\* the page baseline size.
NormalSized == {i \in 1..Len(line_chars) : ~Below80(line_chars[i].size, baseline_size)}

\* How many of them have the top v, rounded to one decimal.
TopFrequency(v) ==
    Cardinality({i \in NormalSized : Round1(line_chars[i].top) = v})

\* Is v a most frequent rounded top of the line's normal-sized characters,
\* or the page baseline_top when the line has none?
IsLineBaseline(v) ==
    IF NormalSized = {} THEN v = baseline_top
    ELSE /\ \E i \in NormalSized : v = Round1(line_chars[i].top)
         /\ \A j \in NormalSized :
                TopFrequency(Round1(line_chars[j].top)) =< TopFrequency(v)

\* C25: the baseline of a line is the most frequent top, rounded to one
\* decimal, of the line's characters of at least 80% of the page baseline
\* size, and the page baseline_top when the line has no such character; the
\* characters of the line are classified against it, not against the page
\* baseline.
C25_LineBaseline ==
    pc = "rf_chars" =>
        /\ IsLineBaseline(line_baseline_top)
        /\ char_idx > 1 =>
              LET c == line_chars[char_idx - 1]
              IN  \E v \in {line_baseline_top} :
                     /\ IsLineBaseline(v)
                     /\ is_subscript <=>
                            (Below80(c.size, baseline_size) /\ c.top - v > Pt \div 2)
                     /\ is_superscript <=>
                            (Below80(c.size, baseline_size) /\ v - c.top > Pt \div 2)

\* C25 witness: on a page whose baseline lies at 116 pt, the 2 set 3 pt below
\* the H of a line at 100 pt came out as a subscript: it lies below the
\* line's baseline and above the page's.
C25_Witness ==
    /\ pc = "rf_done"
    /\ baseline_top = 2320 /\ baseline_size = 200
    /\ chars = PageChars(<<Kind("H", 2000, 200), Kind("2", 2060, 140)>>)
    /\ line_baseline_top = 2000
    /\ result = <<"H", "_", "{", "2", "}">>


----------------------------------------------------------------------------
(* Line grouping: reconstruct_formulas and _reconstruct_plain_text *)

MaxLgChars == 3               \* characters on a page whose lines are grouped

\* Kinds on the line at 100 pt, 8 pt and 8.25 pt below it and 16 pt below it:
\* letters, a space, and small characters.
LgKinds ==
    { Kind("H", 2000, 200), Kind(" ", 2000, 200), Kind("2", 2060, 140),
      Kind("n", 2160, 200), Kind("N", 2165, 200), Kind("4", 2320, 140) }

\* The characters of a page as pdfplumber gives them, left to right in the
\* order given, whatever their line.
LgChars(f) ==
    [i \in DOMAIN f |->
        [text |-> f[i].text, x0 |-> XOrigin + (i - 1) * CharWidth,
         x1 |-> XOrigin + i * CharWidth, top |-> f[i].top,
         bottom |-> f[i].top + f[i].size, size |-> f[i].size]]

\* The drawings of the page: none, or one segment at y = 102 pt.
LgDrawings == { <<>>, <<Line(113, 102, 125, 102)>> }

\* extract_from_pdf on a one-page document with no filter configured.
InitLG ==
    /\ pc = "xp_page"
    /\ \E f \in UNION { [1..n -> LgKinds] : n \in 0..MaxLgChars } :
          \E d \in LgDrawings : xp_pages = <<XpPage(LgChars(f), d)>>
    /\ xp_skip_first_page = FALSE
    /\ xp_noise_filter = <<>>
    /\ xp_exclusion_zones = <<>>
    /\ xp_regex_filter = FALSE
    /\ xp_pdf_open = TRUE
    /\ xp_docs_open = 0
    /\ xp_page_num = 1
    /\ xp_results = <<>>
    /\ XpLocalsInit
    /\ xp_raised = {}
    /\ RestButXP

SpecLG == InitLG /\ [][NextXP]_vars

\* Is s the sequence cs put in (top, x0) order: the same characters, each
\* once, none before one it should follow?
InTopX0Order(s, cs) ==
    /\ Len(s) = Len(cs)
    /\ \E p \in [1..Len(s) -> 1..Len(s)] :
          /\ \A i, j \in 1..Len(s) : i # j => p[i] # p[j]
          /\ \A i \in 1..Len(s) : s[i] = cs[p[i]]
    /\ \A i, j \in 1..Len(s) :
          i < j => (s[i].top < s[j].top
                    \/ (s[i].top = s[j].top /\ s[i].x0 =< s[j].x0))

\* Is t the texts ts one after another, with at most one space or newline
\* between two of them and nothing else?
RECURSIVE TextsWithSeparators(_, _)
TextsWithSeparators(t, ts) ==
    IF ts = <<>> THEN t = <<>>
    ELSE /\ t # <<>>
         /\ t[1] = ts[1]
         /\ IF Len(ts) = 1 THEN Len(t) = 1
            ELSE \/ TextsWithSeparators(Tail(t), Tail(ts))
                 \/ /\ Len(t) >= 2
                    /\ t[2] \in {" ", "\n"}
                    /\ TextsWithSeparators(Tail(Tail(t)), Tail(ts))

TextsOf(s) == [i \in DOMAIN s |-> s[i].text]

\* C30: line grouping neither loses nor duplicates characters.  In
\* reconstruct_formulas the characters walked so far are, in the sorted
\* order, the finished lines followed by the line being built, so that the
\* lines partition the input and none is empty.  In _reconstruct_plain_text
\* the text of every character is emitted exactly once in (top, x0) order:
\* the plain text of a page is the texts of its characters in that order
\* with nothing but single spaces and newlines put between them.
C30_NoCharLostOrDuplicated ==
    /\ pc = "rf_group" =>
          /\ InTopX0Order(sorted_by_y, chars)
          /\ Flatten(lines) \o current_line = SubSeq(sorted_by_y, 1, k - 1)
    /\ (pc \in {"rf_line", "rf_chars"} \/ (pc = "rf_done" /\ chars # <<>>)) =>
          /\ InTopX0Order(Flatten(lines), chars)
          /\ \A i \in 1..Len(lines) : lines[i] # <<>>
    /\ \A i \in 1..Len(xp_results) :
          LET cs == xp_pages[xp_results[i].page].chars
          IN  \E s \in {SortTopX0(cs)} :
                 /\ InTopX0Order(s, cs)
                 /\ TextsWithSeparators(xp_results[i].text, TextsOf(s))

\* C30 witness: a page whose characters come in the order N (8.25 pt below
\* the line), H, space; reconstruct_formulas put H and the space on one line
\* and N on the next, and the plain text reads H, the space, a newline, N.
C30_Witness ==
    /\ pc = "xp_done"
    /\ xp_pages = <<XpPage(LgChars(<<Kind("N", 2165, 200), Kind("H", 2000, 200),
                                     Kind(" ", 2000, 200)>>), <<>>)>>
    /\ xp_raised = {}
    /\ Len(xp_results) = 1
    /\ xp_results[1].formatted_text = <<"H", " ", "\n", "N">>
    /\ xp_results[1].text = <<"H", " ", "\n", "N">>


----------------------------------------------------------------------------
(* NoiseDetector._get_sample_page_indices *)

MaxSiPages == 8               \* pages of a sampled document
MaxSampleSize == 6            \* the configured sample_size

\* detect_noise_zones on documents of 1..MaxSiPages pages, blank or with a
\* running head and a page code, with every sample_size of 1..MaxSampleSize.
InitSI ==
    /\ pc = "nd_start"
    /\ pages \in UNION { [1..n -> {<<>>, <<RunningHead, PageCode>>}] :
                           n \in 1..MaxSiPages }
    /\ sample_size \in 1..MaxSampleSize
    /\ min_frequency_pct = 50
    /\ sample_indices = <<>> /\ nd_i = 1
    /\ header_texts = <<>> /\ footer_texts = <<>>
    /\ left_margin_texts = <<>> /\ right_margin_texts = <<>>
    /\ min_occurrences = 0
    /\ noise_patterns = NoPatterns
    /\ nd_zones = NoZones
    /\ RestButND

SpecSI == InitSI /\ [][NextND]_vars

Sampled == {sample_indices[i] : i \in 1..Len(sample_indices)}

\* The first two pages, the middle page, the second-to-last and the last
\* page of a document of n pages, as indices from 0.
FivePages(n) == {p \in {0, 1, n \div 2, n - 2, n - 1} : 0 =< p /\ p < n}

\* Distinct valid page indices in ascending order, at most sample_size of
\* them; every page of a document of no more than sample_size pages.
ValidSample ==
    /\ \A i \in 1..Len(sample_indices) :
          sample_indices[i] \in 0..(Len(pages) - 1)
    /\ \A i, j \in 1..Len(sample_indices) :
          i < j => sample_indices[i] < sample_indices[j]
    /\ Len(sample_indices) =< sample_size
    /\ Len(pages) =< sample_size => Sampled = 0..(Len(pages) - 1)

----------------------------------------------------------------------------
(* extract_from_pdf: the characters the page baseline is taken from *)

\* Two labels of size 7 inside the figure, three header characters of size
\* 8 at 40 pt, and A, B and a subscript 2 on the line at 100 pt.  The most
\* frequent size and top differ between all the characters, those the noise
\* filter leaves, those the exclusion filter leaves and those both leave.
BaselinePage ==
    XpPage(<<XpChar("b", 340, 7000, 140), XpChar("c", 346, 7000, 140),
             XpChar("7", 300, 800, 160), XpChar("8", 306, 800, 160),
             XpChar("9", 312, 800, 160), XpChar("A", 100, 2000, 200),
             XpChar("B", 106, 2000, 200), XpChar("2", 112, 2060, 140)>>,
           <<Line(113, 102, 125, 102)>>)

\* extract_from_pdf on a one-page document, with and without noise filter,
\* exclusion zones and regex filter.
InitBF ==
    /\ pc = "xp_page"
    /\ xp_pages \in { <<BaselinePage>>, <<FigurePage>>, <<ReactionPage>> }
    /\ xp_skip_first_page = FALSE
    /\ xp_noise_filter \in XpNoiseFilters
    /\ xp_exclusion_zones \in XpExclusionZones
    /\ xp_regex_filter \in BOOLEAN
    /\ xp_pdf_open = TRUE
    /\ xp_docs_open = 0
    /\ xp_page_num = 1
    /\ xp_results = <<>>
    /\ XpLocalsInit
    /\ xp_raised = {}
    /\ RestButXP

SpecBF == InitBF /\ [][NextXP]_vars

\* The characters of page n whose anchor is in no zone of the noise filter.
AfterNoise(n) ==
    IF xp_noise_filter = <<>> THEN xp_pages[n].chars
    ELSE AnchorsOutside(xp_pages[n].chars, xp_noise_filter[1])

\* Those of the characters s whose box meets no exclusion zone (the zones
\* of the modelled documents are caption figures, whose default shrink is 0).
RECURSIVE OutsideZones(_, _)
OutsideZones(s, zones) ==
    IF s = <<>> THEN <<>>
    ELSE IF \E j \in 1..Len(zones) : Intersects(CharBBox(Head(s)), zones[j].bbox)
         THEN OutsideZones(Tail(s), zones)
         ELSE <<Head(s)>> \o OutsideZones(Tail(s), zones)

\* The characters of page n that remain after the noise filter and then the
\* exclusion filter.
Remaining(n) == OutsideZones(AfterNoise(n), ZonesOfPage(n))

\* Is v a most frequent value of f over the characters s?
IsMostFrequent(v, s, f(_)) ==
    /\ \E i \in 1..Len(s) : f(s[i]) = v
    /\ \A w \in {f(s[i]) : i \in 1..Len(s)} :
          Cardinality({i \in 1..Len(s) : f(s[i]) = w})
              =< Cardinality({i \in 1..Len(s) : f(s[i]) = v})

RoundedSize(c) == Round1(c.size)
RoundedTop(c) == Round1(c.top)

\* C27: the page baseline is the most frequent size and the most frequent
\* top of the characters that remain after the noise filter and then the
\* exclusion filter; exactly these characters are the input of
\* reconstruct_formulas and of the plain-text reconstruction, in the entry's
\* text and in the fallback; no other baseline is passed on or recorded.
C27_BaselineFromFiltered ==
    /\ pc \in {"rf_start", "rf_group", "rf_line", "rf_chars", "rf_done"} =>
          /\ chars = Remaining(xp_page_num)
          /\ IsMostFrequent(baseline_size, Remaining(xp_page_num), RoundedSize)
          /\ IsMostFrequent(baseline_top, Remaining(xp_page_num), RoundedTop)
    /\ pc \in {"ea_open", "ea_page", "ea_drawings", "ea_collect", "ea_pair",
               "ea_done", "xp_normalize"} =>
          /\ xp_chars = AfterNoise(xp_page_num)
          /\ xp_filtered_chars = Remaining(xp_page_num)
    /\ (pc = "xp_normalize" /\ FellBack(xp_page_num)) =>
          xp_formatted_text = ReconstructPlainText(Remaining(xp_page_num))
    /\ \A i \in 1..Len(xp_results) :
          LET e == xp_results[i]
              rem == Remaining(e.page)
          IN  /\ IsEmptyEntry(e) <=> rem = <<>>
              /\ ~IsEmptyEntry(e) =>
                    /\ IsMostFrequent(e.baseline_size, rem, RoundedSize)
                    /\ IsMostFrequent(e.baseline_top, rem, RoundedTop)
                    /\ e.filtered_char_count = Len(rem)
                    /\ e.text = RegexFiltered(ReconstructPlainText(rem))

\* C27 witness: with the header zone and the figure zone configured the
\* page's baseline is size 10 at 100 pt, that of A and B, although size 7 is
\* the most frequent before the exclusion filter and size 8 without the
\* noise filter.
C27_Witness ==
    /\ pc = "xp_done"
    /\ xp_pages = <<BaselinePage>>
    /\ xp_noise_filter # <<>> /\ xp_exclusion_zones # <<>>
    /\ xp_raised = {}
    /\ Len(xp_results) = 1
    /\ xp_results[1].baseline_size = 200 /\ xp_results[1].baseline_top = 2000
    /\ xp_results[1].filtered_char_count = 3
    /\ xp_results[1].text = <<"A", "B", "2">>

----------------------------------------------------------------------------
(* What clean_line leaves in a line *)

\* A CID escape (cid:N) starts at i.
CidEscapeAt(t, i) ==
    /\ Lit(t, i, <<"(", "c", "i", "d", ":">>)
    /\ \E j \in (i + 6)..Len(t) :
          /\ t[j] = ")"
          /\ \A q \in (i + 5)..(j - 1) : t[q] \in Digits

\* An empty group marker starts at i.
EmptyGroupAt(t, i) ==
    Lit(t, i, <<"^", "{", "}">>) \/ Lit(t, i, <<"_", "{", "}">>)

\* Six dots start at i.
SixDotsAt(t, i) ==
    i + 5 =< Len(t) /\ \A q \in i..(i + 5) : t[q] = "."

\* No leading, trailing or repeated whitespace.
TidyWhitespace(t) ==
    /\ t # <<>> => (t[1] \notin Whitespace /\ t[Len(t)] \notin Whitespace)
    /\ \A i \in 1..(Len(t) - 1) :
          ~(t[i] \in Whitespace /\ t[i + 1] \in Whitespace)

\* C28: with the default flags every line clean_line returned holds no CID
\* escape (cid:N), no empty group marker ^{} or _{}, no run of six or more
\* dots, and no leading, trailing or repeated whitespace.
C28_CleanLineOutput ==
    DefaultFlags =>
        \A n \in 1..Len(cleaned_lines) :
            LET t == cleaned_lines[n]
            IN  /\ \A i \in 1..Len(t) :
                      /\ ~CidEscapeAt(t, i)
                      /\ ~EmptyGroupAt(t, i)
                      /\ ~SixDotsAt(t, i)
                /\ TidyWhitespace(t)

----------------------------------------------------------------------------
(* The shrink padding of the exclusion filter, per source *)

\* Glyph boxes around zones that span x 100..130 pt and x 150..200 pt,
\* y 100..200 pt: straddling the left edge, inside the 20 pt rim, wider than
\* what a 20 pt shrink leaves of the narrow zone, inside the 20 pt rim of the
\* right edge, deep inside the right zone; deep inside, inside the top rim,
\* inside the bottom rim.
EpSpansX ==
    { <<1900, 2100>>, <<2200, 2300>>, <<2100, 2500>>, <<3700, 3800>>,
      <<3400, 3500>> }

EpSpansY == { <<2900, 3100>>, <<2200, 2300>>, <<3700, 3800>> }

EpCharKinds ==
    { [x0 |-> sx[1], x1 |-> sx[2], top |-> sy[1], bottom |-> sy[2]] :
        sx \in EpSpansX, sy \in EpSpansY }

EpRightBox == <<3000, 2000, 4000, 4000>>

EpZoneLists ==
    { <<>>,
      <<Zone(ExNarrowBox, "figure", "caption")>>,
      <<Zone(EpRightBox, "figure", "visual")>>,
      <<Zone(EpRightBox, "table", "caption")>>,
      <<Zone(ExNarrowBox, "figure", "caption"), Zone(EpRightBox, "figure", "visual")>>,
      <<Zone(ExNarrowBox, "figure", ""), Zone(EpRightBox, "figure", "caption")>>,
      <<Zone(ExNarrowBox, "unknown", "visual"), Zone(EpRightBox, "figure", "pdfplumber")>> }

\* Paddings of 0, 5, 20 and 55 pt; the defaults are 0 and 20 pt (lines 18-19).
EpPadValues == {0, 100, 400, 1100}

EpPads == { <<0, 400>>, <<100, 400>>, <<400, 100>>, <<400, 0>>, <<0, 0>> }

InitEP ==
    /\ pc = "ex_start"
    /\ ex_chars \in UNION { [1..n -> EpCharKinds] : n \in 0..MaxExChars }
    /\ exclusion_zones \in EpZoneLists
    /\ \E pad \in EpPads :
          /\ caption_figure_padding_shrink = pad[1]
          /\ visual_figure_padding_shrink = pad[2]
    /\ ex_idx = 0
    /\ ex_filtered = <<>>
    /\ RestButEX

SpecEP == InitEP /\ [][NextEX]_vars

IsCaptionFigure(zone) == zone.type = "figure" /\ zone.source = "caption"
IsOtherFigure(zone) == zone.type = "figure" /\ zone.source # "caption"

\* The box b with each side moved inward by p.
ShrunkInward(b, p) == <<b[1] + p, b[2] + p, b[3] - p, b[4] - p>>

\* The zone's box as the filter is to use it with the two paddings.
ZoneBoxWith(zone, caption_pad, visual_pad) ==
    IF IsCaptionFigure(zone) THEN ShrunkInward(zone.bbox, caption_pad)
    ELSE IF IsOtherFigure(zone) THEN ShrunkInward(zone.bbox, visual_pad)
    ELSE zone.bbox

\* Neither box ends before the other starts, on either axis.
Meets(a, b) ==
    /\ a[1] =< b[3] /\ b[1] =< a[3]
    /\ a[2] =< b[4] /\ b[2] =< a[4]

\* The characters that meet no zone box.
RECURSIVE KeptWith(_, _, _, _)
KeptWith(cs, zones, caption_pad, visual_pad) ==
    IF cs = <<>> THEN <<>>
    ELSE LET c == Head(cs)
             rest == KeptWith(Tail(cs), zones, caption_pad, visual_pad)
         IN  IF \E j \in 1..Len(zones) :
                    Meets(CharBBox(c), ZoneBoxWith(zones[j], caption_pad, visual_pad))
             THEN rest
             ELSE <<c>> \o rest

CaptionFigureZones == SelectSeq(exclusion_zones, IsCaptionFigure)
OtherFigureZones == SelectSeq(exclusion_zones, IsOtherFigure)

\* C29: the shrink padding is chosen per zone and per source: a figure zone
\* with source 'caption' is shrunk inward on all four sides by
\* caption_figure_padding_shrink, a figure zone with any other source by
\* visual_figure_padding_shrink, a zone of any other type is never shrunk;
\* changing one padding never changes which characters the zones of the
\* other kind exclude, and increasing a padding never drops a character
\* that was retained.
C29_PaddingPerSource ==
    pc = "ex_done" =>
        /\ ex_filtered = KeptWith(ex_chars, exclusion_zones,
                                  caption_figure_padding_shrink,
                                  visual_figure_padding_shrink)
        /\ \A p \in EpPadValues : \A i \in 1..Len(ex_chars) :
              /\ IsExcluded(ex_chars[i], CaptionFigureZones,
                            caption_figure_padding_shrink, p)
                 <=> IsExcluded(ex_chars[i], CaptionFigureZones,
                                caption_figure_padding_shrink,
                                visual_figure_padding_shrink)
              /\ IsExcluded(ex_chars[i], OtherFigureZones,
                            p, visual_figure_padding_shrink)
                 <=> IsExcluded(ex_chars[i], OtherFigureZones,
                                caption_figure_padding_shrink,
                                visual_figure_padding_shrink)
        /\ \A p \in EpPadValues : \A i \in 1..Len(ex_filtered) :
              /\ p >= caption_figure_padding_shrink
                 => ~IsExcluded(ex_filtered[i], exclusion_zones,
                                p, visual_figure_padding_shrink)
              /\ p >= visual_figure_padding_shrink
                 => ~IsExcluded(ex_filtered[i], exclusion_zones,
                                caption_figure_padding_shrink, p)

\* C29 witness: against a caption figure shrunk by 5 pt and a visual figure
\* shrunk by 20 pt, the character 10 pt inside the caption figure was
\* dropped and the character 10 pt inside the visual figure was kept.
C29_Witness ==
    /\ pc = "ex_done"
    /\ caption_figure_padding_shrink = 100
    /\ visual_figure_padding_shrink = 400
    /\ exclusion_zones = <<Zone(ExNarrowBox, "figure", "caption"),
                           Zone(EpRightBox, "figure", "visual")>>
    /\ ex_chars = << [x0 |-> 2200, x1 |-> 2300, top |-> 2900, bottom |-> 3100],
                     [x0 |-> 3700, x1 |-> 3800, top |-> 2900, bottom |-> 3100] >>
    /\ ex_filtered = << ex_chars[2] >>

====
